---- MODULE Spec2Model ----
(***************************************************************************)
(* A model of glitter's interpreter (lib/interpreter.rs) together with the *)
(* parts of lib/ast.rs and lib/color.rs it uses.                           *)
(*                                                                         *)
(* The interpreter is a recursive tree walk.  It is modelled as a machine  *)
(* with an explicit call stack: one frame per active call of evaluate,     *)
(* interpret_tree, the Group arm of interpret, interpret_format and        *)
(* optional_prefix.  The tree handed to evaluate is revealed one           *)
(* expression at a time: each step of the loop of interpret_tree draws the *)
(* next expression of the tree it iterates over (or the end of that tree). *)
(*                                                                         *)
(* Text is modelled as TLA+ strings.  Every write! is one sequence of      *)
(* chunks; the sink and the queue remember, next to each chunk, the role   *)
(* of the expression that produced it and the position of that expression  *)
(* in the tree (history information the code does not keep).               *)
(***************************************************************************)
EXTENDS Integers, Sequences, FiniteSets, TLC

\* Bounds of the exploration.
MaxNodes == 3          \* expressions interpreted since Interpreter::new (Spec)
MaxDepth == 2          \* nesting depth of sub-trees below the root tree
MaxSiblings == 6       \* the same as MaxNodes, for SpecSiblings
MaxTree == 3           \* expressions of a generated tree (SpecRoundTrip)
MaxPieces == 4         \* pieces of a typed format (SpecTyped)
MaxChannels == 4       \* channels of a typed RGB token (SpecRGB)
MaxStyles == 3         \* style tokens collected (SpecTables)

----------------------------------------------------------------------------
(* lib/ast.rs *)

Names ==
    {"Branch", "Remote", "Ahead", "Behind", "Conflict", "Added", "Untracked",
     "Modified", "Unstaged", "Deleted", "DeletedStaged", "Renamed", "Stashed",
     "Quote"}

\* enum Color, without RGB(u8, u8, u8)
Colors == {"Red", "Green", "Yellow", "Blue", "Magenta", "Cyan", "White", "Black"}

Delimiters == {"Angle", "Square", "Curly", "Parens"}

left(d) ==
    CASE d = "Angle" -> "<"
      [] d = "Square" -> "["
      [] d = "Curly" -> "{"
      [] d = "Parens" -> "("

right(d) ==
    CASE d = "Angle" -> ">"
      [] d = "Square" -> "]"
      [] d = "Curly" -> "}"
      [] d = "Parens" -> ")"

Separators == {"At", "Bar", "Dot", "Comma", "Space", "Colon", "Semicolon", "Underscore"}

as_str(s) ==
    CASE s = "At" -> "@"
      [] s = "Bar" -> "|"
      [] s = "Dot" -> "."
      [] s = "Comma" -> ","
      [] s = "Space" -> " "
      [] s = "Colon" -> ":"
      [] s = "Semicolon" -> ";"
      [] s = "Underscore" -> "_"

\* CompleteStyle: Option<Color> is "None" or a color.
CompleteStyle ==
    [fg : Colors \cup {"None"}, bg : Colors \cup {"None"},
     bold : BOOLEAN, italics : BOOLEAN, underline : BOOLEAN]

CompleteStyle_default ==
    [fg |-> "None", bg |-> "None", bold |-> FALSE, italics |-> FALSE, underline |-> FALSE]

\* impl AddAssign for CompleteStyle: self += with
add_assign(self, with) ==
    IF with = CompleteStyle_default
    THEN CompleteStyle_default
    ELSE [fg |-> IF with.fg # "None" THEN with.fg ELSE self.fg,
          bg |-> IF with.bg # "None" THEN with.bg ELSE self.bg,
          bold |-> with.bold \/ self.bold,
          italics |-> with.italics \/ self.italics,
          underline |-> with.underline \/ self.underline]

----------------------------------------------------------------------------
(* lib/color.rs *)

ESC == "\\x1B"
SOH == "\\u{01}"
STX == "\\u{02}"

\* macro e!: the escape sequence with SGR parameter c
e(c) == ESC \o "[" \o c \o "m"

fg_code(color) ==
    CASE color = "Black" -> "30"
      [] color = "Red" -> "31"
      [] color = "Green" -> "32"
      [] color = "Yellow" -> "33"
      [] color = "Blue" -> "34"
      [] color = "Magenta" -> "35"
      [] color = "Cyan" -> "36"
      [] color = "White" -> "37"

bg_code(color) ==
    CASE color = "Black" -> "40"
      [] color = "Red" -> "41"
      [] color = "Green" -> "42"
      [] color = "Yellow" -> "43"
      [] color = "Blue" -> "44"
      [] color = "Magenta" -> "45"
      [] color = "Cyan" -> "46"
      [] color = "White" -> "47"

\* The chunks write_to hands to the sink, one per write!, in order.
write_to(self, bash_prompt) ==
    (IF bash_prompt THEN <<SOH>> ELSE <<>>)
    \o (IF self # CompleteStyle_default
        THEN (IF self.fg # "None" THEN <<e(fg_code(self.fg))>> ELSE <<>>)
             \o (IF self.bg # "None" THEN <<e(bg_code(self.bg))>> ELSE <<>>)
             \o (IF self.bold THEN <<e("1")>> ELSE <<>>)
             \o (IF self.italics THEN <<e("3")>> ELSE <<>>)
             \o (IF self.underline THEN <<e("4")>> ELSE <<>>)
        ELSE <<e("0")>>)
    \o (IF bash_prompt THEN <<STX>> ELSE <<>>)

\* A variant of between that does not look at bold when it decides on Reset.
between_bold_kept(prev, next) ==
    IF prev = next
    THEN [kind |-> "None"]
    ELSE IF \/ (prev.fg # "None" /\ next.fg = "None")
            \/ (prev.bg # "None" /\ next.bg = "None")
            \/ (prev.italics /\ ~next.italics)
            \/ (prev.underline /\ ~next.underline)
    THEN [kind |-> "Reset"]
    ELSE [kind |-> "Add",
          style |-> [fg |-> IF next.fg # prev.fg THEN next.fg ELSE "None",
                     bg |-> IF next.bg # prev.bg THEN next.bg ELSE "None",
                     bold |-> ~prev.bold /\ next.bold,
                     italics |-> ~prev.italics /\ next.italics,
                     underline |-> ~prev.underline /\ next.underline]]

\* Difference::between
between(prev, next) ==
    IF prev = next
    THEN [kind |-> "None"]
    ELSE IF \/ (prev.fg # "None" /\ next.fg = "None")
            \/ (prev.bg # "None" /\ next.bg = "None")
            \/ (prev.bold /\ ~next.bold)
            \/ (prev.italics /\ ~next.italics)
            \/ (prev.underline /\ ~next.underline)
    THEN [kind |-> "Reset"]
    ELSE [kind |-> "Add",
          style |-> [fg |-> IF next.fg # prev.fg THEN next.fg ELSE "None",
                     bg |-> IF next.bg # prev.bg THEN next.bg ELSE "None",
                     bold |-> ~prev.bold /\ next.bold,
                     italics |-> ~prev.italics /\ next.italics,
                     underline |-> ~prev.underline /\ next.underline]]

\* A variant of write_difference that writes the whole of self for Add.
write_difference_whole(self, prev, bash_prompt) ==
    LET diff == between(prev, self) IN
    CASE diff.kind = "Add" -> write_to(self, bash_prompt)
      [] diff.kind = "Reset" ->
            IF bash_prompt
            THEN <<SOH, e("0")>> \o write_to(self, FALSE) \o <<STX>>
            ELSE <<e("0")>> \o write_to(self, FALSE)
      [] diff.kind = "None" -> <<>>

\* self.write_difference(w, prev, bash_prompt): the chunks written
write_difference(self, prev, bash_prompt) ==
    LET diff == between(prev, self) IN
    CASE diff.kind = "Add" -> write_to(diff.style, bash_prompt)
      [] diff.kind = "Reset" ->
            IF bash_prompt
            THEN <<SOH, e("0")>> \o write_to(self, FALSE) \o <<STX>>
            ELSE <<e("0")>> \o write_to(self, FALSE)
      [] diff.kind = "None" -> <<>>

----------------------------------------------------------------------------
(* lib/git.rs *)

Stats_default ==
    [untracked |-> 0, added_staged |-> 0, modified |-> 0, modified_staged |-> 0,
     renamed |-> 0, deleted |-> 0, deleted_staged |-> 0, ahead |-> 0, behind |-> 0,
     conflicts |-> 0, stashes |-> 0, branch |-> "", remote |-> ""]

----------------------------------------------------------------------------
(* The inputs the exploration draws from. *)

\* Stats snapshots handed to Interpreter::new: the empty one of the tests, and
\* a repository on branch master, three commits ahead, with one stash.
StatsAhead ==
    [Stats_default EXCEPT !.branch = "master", !.ahead = 3, !.stashes = 1]

StatsUsed == {Stats_default, StatsAhead}

LiteralsUsed == {"a"}
SeparatorsUsed == {"Comma"}
NamesUsed == {"Ahead", "Branch"}
NamesSiblings == {"Ahead", "Behind"}
DelimitersUsed == {"Square", "Parens"}
StylesUsed ==
    {[CompleteStyle_default EXCEPT !.bold = TRUE],
     [CompleteStyle_default EXCEPT !.fg = "Red"],
     CompleteStyle_default}
SubsUsed == {"empty", "nonempty"}

----------------------------------------------------------------------------
(* lib/interpreter.rs: state *)

VARIABLES
    stats,            \* Interpreter.stats
    allow_color,      \* Interpreter.allow_color
    bash_prompt,      \* Interpreter.bash_prompt
    command_queue,    \* Interpreter.command_queue
    w,                \* the sink of the evaluate call in progress (or of the last one)
    stack,            \* active calls, innermost last; <<>> when no evaluate is running
    result,           \* what the last evaluate returned; "Running" meanwhile
    overflow_checks,  \* build profile: is usize subtraction checked ("on") or wrapping ("off")
    exps,             \* history: the expressions of the tree revealed so far
    returned,         \* history: the call of interpret that returned last
    nodes,            \* number of expressions drawn so far
    limit,            \* how many expressions may be drawn
    text,             \* the format handed to parse, one character per element
    parsed,           \* what parse returned for text; NotParsed before the call
    tree,             \* a Tree as arb_expression generates it; text is its Display
    styles,           \* a sequence of Style tokens
    complete          \* the CompleteStyle collected from styles

vars ==
    <<stats, allow_color, bash_prompt, command_queue, w, stack, result,
      overflow_checks, exps, returned, nodes, limit, text, parsed, tree,
      styles, complete>>

\* what no step of the interpreter changes
interp ==
    <<stats, allow_color, bash_prompt, limit, text, parsed, tree, styles, complete>>

\* what no step of the parser changes
interpreter ==
    <<stats, allow_color, bash_prompt, command_queue, w, stack, result,
      overflow_checks, exps, returned, nodes, limit>>

NotParsed == [class |-> "NotParsed"]

\* no format has been handed to parse and no style has been collected
NoFormat ==
    /\ text = <<>>
    /\ parsed = NotParsed
    /\ tree = <<>>
    /\ styles = <<>>
    /\ complete = CompleteStyle_default

\* Display for u16
Digit == <<"0", "1", "2", "3", "4", "5", "6", "7", "8", "9">>

RECURSIVE u16_to_string(_)
u16_to_string(v) ==
    IF v < 10 THEN Digit[v + 1] ELSE u16_to_string(v \div 10) \o Digit[(v % 10) + 1]

\* interpret_named: the stat and the default prefix of every name but Quote
\* (is_string tells which impl of Empty and of Display applies to val)
named_args(name) ==
    CASE name = "Branch" -> [val |-> stats.branch, is_string |-> TRUE, prefix |-> ""]
      [] name = "Remote" -> [val |-> stats.remote, is_string |-> TRUE, prefix |-> ""]
      [] name = "Ahead" -> [val |-> stats.ahead, is_string |-> FALSE, prefix |-> "+"]
      [] name = "Behind" -> [val |-> stats.behind, is_string |-> FALSE, prefix |-> "-"]
      [] name = "Conflict" -> [val |-> stats.conflicts, is_string |-> FALSE, prefix |-> "U"]
      [] name = "Added" -> [val |-> stats.added_staged, is_string |-> FALSE, prefix |-> "A"]
      [] name = "Untracked" -> [val |-> stats.untracked, is_string |-> FALSE, prefix |-> "?"]
      [] name = "Modified" -> [val |-> stats.modified_staged, is_string |-> FALSE, prefix |-> "M"]
      [] name = "Unstaged" -> [val |-> stats.modified, is_string |-> FALSE, prefix |-> "M"]
      [] name = "Deleted" -> [val |-> stats.deleted, is_string |-> FALSE, prefix |-> "D"]
      [] name = "DeletedStaged" -> [val |-> stats.deleted_staged, is_string |-> FALSE, prefix |-> "D"]
      [] name = "Renamed" -> [val |-> stats.renamed, is_string |-> FALSE, prefix |-> "R"]
      [] name = "Stashed" -> [val |-> stats.stashes, is_string |-> FALSE, prefix |-> "H"]

\* A variant of is_empty in which only a String can be empty.
is_empty_string_only(a) == a.is_string /\ a.val = ""

\* trait Empty, for u16 and for String
is_empty(a) == IF a.is_string THEN a.val = "" ELSE a.val = 0

\* "{}" applied to val
display(a) == IF a.is_string THEN a.val ELSE u16_to_string(a.val)

\* The chunks `chunks`, as they reach the sink or the queue on behalf of the
\* expression at position n.
Tokens(chunks, role, n) ==
    [j \in 1..Len(chunks) |-> [b |-> chunks[j], role |-> role, n |-> n, stale |-> FALSE]]

WriteStr(s, role, n) ==
    [cmd |-> "WriteStr", s |-> s, role |-> role, n |-> n, stale |-> FALSE]

WriteContext(c, n) ==
    [cmd |-> "WriteContext", c |-> c, role |-> "style", n |-> n, stale |-> FALSE]

\* What one queued command writes (the match of write_queue)
CommandTokens(command) ==
    LET chunks == IF command.cmd = "WriteContext"
                  THEN write_to(command.c, bash_prompt)
                  ELSE command.s
    IN [j \in 1..Len(chunks) |->
            [b |-> chunks[j], role |-> command.role, n |-> command.n,
             stale |-> command.stale]]

\* write_queue: everything the loop over command_queue.drain(..) writes
RECURSIVE write_queue(_)
write_queue(q) ==
    IF q = <<>> THEN <<>> ELSE CommandTokens(Head(q)) \o write_queue(Tail(q))

\* drain_queue(i): truncate(len - i).  When i > len the subtraction overflows:
\* a build with overflow checks panics, a build without wraps around and
\* truncate(huge) leaves the queue alone.  The profile is fixed per build; oc
\* is what is known of it, and it is recorded the first time it matters.
drain_queue(q, i, oc) ==
    IF i <= Len(q)
    THEN {[queue |-> SubSeq(q, 1, Len(q) - i), panic |-> FALSE, oc |-> oc]}
    ELSE {[queue |-> q, panic |-> TRUE, oc |-> "on"] :
              x \in {oc} \cap {"undetermined", "on"}}
         \cup {[queue |-> q, panic |-> FALSE, oc |-> "off"] :
              x \in {oc} \cap {"undetermined", "off"}}

\* A variant of pop_to that pops nothing.
pop_to_nothing(q, len) == q

\* `while self.command_queue.len() > len { pop }`
pop_to(q, len) == IF Len(q) > len THEN SubSeq(q, 1, len) ELSE q

Top == stack[Len(stack)]
Below(k) == stack[Len(stack) - k]
Depth == Cardinality({j \in 1..Len(stack) : stack[j].fn = "interpret_tree"}) - 1
InTree == stack # <<>> /\ Top.fn = "interpret_tree"
Here == Append(Top.n, Top.i)

TreeFrame(n, context) ==
    [fn |-> "interpret_tree", n |-> n, context |-> context, wrote |-> FALSE,
     separator_count |-> 0, i |-> 1]

\* A variant of after_interpret that rolls back one fragment more than the
\* separators that are pending.
after_interpret_one_more(frame, wrote_now, q, oc) ==
    IF wrote_now
    THEN {[frame |-> [frame EXCEPT !.wrote = TRUE, !.i = @ + 1],
           queue |-> q, panic |-> FALSE, oc |-> oc]}
    ELSE {[frame |-> [frame EXCEPT !.separator_count = 0, !.i = @ + 1],
           queue |-> o.queue, panic |-> o.panic, oc |-> o.oc] :
              o \in drain_queue(q, frame.separator_count + 1, oc)}

\* The rest of one iteration of the loop of interpret_tree, once interpret has
\* returned wrote_now for the element: lines 116-125.
after_interpret(frame, wrote_now, q, oc) ==
    IF wrote_now
    THEN {[frame |-> [frame EXCEPT !.wrote = TRUE, !.i = @ + 1],
           queue |-> q, panic |-> FALSE, oc |-> oc]}
    ELSE {[frame |-> [frame EXCEPT !.separator_count = 0, !.i = @ + 1],
           queue |-> o.queue, panic |-> o.panic, oc |-> o.oc] :
              o \in drain_queue(q, frame.separator_count, oc)}

\* The end of interpret_tree for the innermost tree: line 128.
tree_end == drain_queue(command_queue, Top.separator_count, overflow_checks)

NoExp == [name |-> "", sub |-> ""]
Running == [kind |-> "Running", exp |-> NoExp]
Ok == [kind |-> "Ok", exp |-> NoExp]

NoCall ==
    [n |-> <<>>, wrote |-> FALSE, queue_before |-> <<>>, written_before |-> 0,
     queue_after |-> <<>>, written_after |-> 0]

Call(n, wrote_now, q0, w0, q1, w1) ==
    [n |-> n, wrote |-> wrote_now, queue_before |-> q0, written_before |-> w0,
     queue_after |-> q1, written_after |-> w1]

\* A variant of WriteError in which the interpreter goes on after the failed
\* write, as if the error had been ignored.
WriteError_ignored(written, q) ==
    /\ w' = w \o written
    /\ command_queue' = q
    /\ result' = [kind |-> "WriteError", exp |-> NoExp]
    /\ UNCHANGED <<stack, overflow_checks, returned>>

\* A write fails: the bytes in `written` reached the sink, `?` carries the
\* error out of every active call and out of evaluate (line 67), which
\* returns without reaching line 77.
WriteError(written, q) ==
    /\ w' = w \o written
    /\ command_queue' = q
    /\ stack' = <<>>
    /\ result' = [kind |-> "WriteError", exp |-> NoExp]
    /\ UNCHANGED <<overflow_checks, returned>>

\* The subtraction of drain_queue panics.
Panic ==
    /\ stack' = <<>>
    /\ result' = [kind |-> "Panic", exp |-> NoExp]
    /\ overflow_checks' = "on"
    /\ UNCHANGED <<w, command_queue, returned>>

\* interpret returns (ctx, wrote_now) for the expression at n to the loop of
\* `frame`; q and written are the queue and the sink at that moment.
Resume(rest, frame, n, wrote_now, q, written, oc, q0, w0) ==
    \E o \in after_interpret(frame, wrote_now, q, oc) :
        /\ overflow_checks' = o.oc
        /\ w' = written
        /\ command_queue' = o.queue
        /\ returned' = Call(n, wrote_now, q0, w0, q, Len(written))
        /\ IF o.panic
           THEN stack' = <<>> /\ result' = [kind |-> "Panic", exp |-> NoExp]
           ELSE stack' = Append(rest, o.frame) /\ UNCHANGED result

Rest(k) == SubSeq(stack, 1, Len(stack) - k)

Reveal(node) ==
    /\ exps' = exps @@ (Here :> node)
    /\ nodes' = nodes + 1

Node(kind, arg, sub) == [kind |-> kind, arg |-> arg, sub |-> sub]

----------------------------------------------------------------------------
(* lib/interpreter.rs: operations *)

\* Interpreter::new(stats, allow_color, bash_prompt)
Init ==
    /\ stats \in StatsUsed
    /\ allow_color \in BOOLEAN
    /\ bash_prompt \in BOOLEAN
    /\ command_queue = <<>>
    /\ w = <<>>
    /\ stack = <<>>
    /\ result = [kind |-> "None", exp |-> NoExp]
    /\ overflow_checks = "undetermined"
    /\ exps = <<>>
    /\ returned = NoCall
    /\ nodes = 0
    /\ limit = MaxNodes
    /\ NoFormat

\* A variant of full_reset that never writes the markers.
full_reset_unmarked == <<e("0")>>

\* "\u{01}\x1B[0m\u{02}" or "\x1B[0m"
full_reset == IF bash_prompt THEN <<SOH, e("0"), STX>> ELSE <<e("0")>>

\* What is still queued from earlier calls of evaluate is marked as such.
Stale(q) == [j \in 1..Len(q) |-> [q[j] EXCEPT !.stale = TRUE]]

\* evaluate is called with a fresh sink: lines 57-67, up to the call of
\* interpret_tree for the root tree.
Evaluate ==
    /\ stack = <<>>
    /\ result.kind # "Panic"
    /\ command_queue' =
          Stale(command_queue)
          \o (IF allow_color THEN <<WriteStr(full_reset, "reset", <<>>)>> ELSE <<>>)
    /\ stack' = <<[fn |-> "evaluate"], TreeFrame(<<>>, CompleteStyle_default)>>
    /\ w' = <<>>
    /\ result' = Running
    /\ exps' = <<>>
    /\ returned' = NoCall
    /\ UNCHANGED <<interp, overflow_checks, nodes>>

\* interpret_tree, the Separator arm: lines 107-114.
InterpretTreeSeparator(s) ==
    /\ InTree
    /\ nodes < limit
    /\ stack' = [stack EXCEPT ![Len(stack)] =
                    [Top EXCEPT !.i = @ + 1,
                                !.separator_count = IF Top.wrote THEN @ + 1 ELSE @]]
    /\ command_queue' =
          IF Top.wrote
          THEN Append(command_queue, WriteStr(<<as_str(s)>>, "separator", Here))
          ELSE command_queue
    /\ Reveal(Node("Separator", s, "empty"))
    /\ UNCHANGED <<interp, w, result, overflow_checks, returned>>

\* interpret, the Literal arm: lines 159-163.
InterpretLiteral(literal) ==
    /\ InTree
    /\ nodes < limit
    /\ Reveal(Node("Literal", literal, "empty"))
    /\ UNCHANGED interp
    /\ LET toks == write_queue(command_queue) \o Tokens(<<literal>>, "literal", Here) IN
       \E k \in 0..Len(toks) :
          IF k < Len(toks)
          THEN WriteError(SubSeq(toks, 1, k), <<>>)
          ELSE /\ Resume(Rest(1), Top, Here, TRUE, <<>>, w \o toks, overflow_checks,
                         command_queue, Len(w))
               /\ UNCHANGED result

\* interpret_named -> optional_prefix with an empty val: lines 178-180.
OptionalPrefixEmpty(name, sub) ==
    /\ InTree
    /\ nodes < limit
    /\ name # "Quote"
    /\ is_empty(named_args(name))
    /\ Reveal(Node("Named", name, sub))
    /\ UNCHANGED interp
    /\ Resume(Rest(1), Top, Here, FALSE, command_queue, w, overflow_checks,
              command_queue, Len(w))

\* "{}{}" of prefix and val
prefix_val(a, n) ==
    (IF a.prefix = "" THEN <<>> ELSE Tokens(<<a.prefix>>, "prefix", n))
    \o Tokens(<<display(a)>>, "value", n)

\* A variant of after_sub that writes the prefix whatever the sub-tree did.
after_sub_with_prefix(a, n, wrote) == prefix_val(a, n)

\* optional_prefix, lines 188-192: what follows the sub-tree
after_sub(a, n, wrote) ==
    IF wrote THEN Tokens(<<display(a)>>, "value", n) ELSE prefix_val(a, n)

\* optional_prefix with a val and an empty sub: lines 182-185, 195.
OptionalPrefixNoSub(name) ==
    /\ InTree
    /\ nodes < limit
    /\ name # "Quote"
    /\ ~is_empty(named_args(name))
    /\ Reveal(Node("Named", name, "empty"))
    /\ UNCHANGED interp
    /\ LET toks == write_queue(command_queue) \o prefix_val(named_args(name), Here) IN
       \E k \in 0..Len(toks) :
          IF k < Len(toks)
          THEN WriteError(SubSeq(toks, 1, k), <<>>)
          ELSE Resume(Rest(1), Top, Here, TRUE, <<>>, w \o toks, overflow_checks,
                      command_queue, Len(w))

\* optional_prefix with a val and a sub: lines 182-187, up to the call of
\* interpret_tree for sub.
OptionalPrefixSub(name) ==
    /\ InTree
    /\ nodes + 2 <= limit
    /\ Depth < MaxDepth
    /\ name # "Quote"
    /\ ~is_empty(named_args(name))
    /\ Reveal(Node("Named", name, "nonempty"))
    /\ UNCHANGED interp
    /\ LET toks == write_queue(command_queue) IN
       \E k \in 0..Len(toks) :
          IF k < Len(toks)
          THEN WriteError(SubSeq(toks, 1, k), <<>>)
          ELSE /\ w' = w \o toks
               /\ command_queue' = <<>>
               /\ stack' = stack \o
                    <<[fn |-> "optional_prefix", n |-> Here, name |-> name,
                       ctx |-> Top.context, q0 |-> command_queue, w0 |-> Len(w),
                       flushed |-> Len(w) + Len(toks)],
                      TreeFrame(Here, Top.context)>>
               /\ UNCHANGED <<result, overflow_checks, returned>>

\* interpret_tree for the sub of a Named returns: line 128, then lines 187-195.
ReturnToOptionalPrefix ==
    /\ InTree
    /\ Top.i > 1
    /\ Below(1).fn = "optional_prefix"
    /\ UNCHANGED <<interp, exps, nodes>>
    /\ \E o \in tree_end :
          IF o.panic
          THEN Panic
          ELSE LET p == Below(1)
                   a == named_args(p.name)
                   toks == after_sub(a, p.n, Top.wrote)
               IN \E k \in 0..Len(toks) :
                     IF k < Len(toks)
                     THEN WriteError(SubSeq(toks, 1, k), o.queue)
                     ELSE Resume(Rest(3), Below(2), p.n, TRUE, o.queue, w \o toks,
                                 o.oc, p.q0, p.w0)

\* A variant of UnexpectedArgs that reports the expression without its sub-tree.
UnexpectedArgs_without_sub(name, sub) ==
    [kind |-> "UnexpectedArgs", exp |-> [name |-> name, sub |-> "empty"]]

\* Err(InterpreterErr::UnexpectedArgs { exp: Named { name, sub: sub.clone() } }):
\* lines 211-216.
UnexpectedArgs(name, sub) ==
    [kind |-> "UnexpectedArgs", exp |-> [name |-> name, sub |-> sub]]

\* interpret_named -> interpret_literal for Quote: lines 206-217.
InterpretQuote(sub) ==
    /\ InTree
    /\ nodes < limit
    /\ Reveal(Node("Named", "Quote", sub))
    /\ UNCHANGED interp
    /\ IF sub = "empty"
       THEN \/ WriteError(<<>>, command_queue)
            \/ Resume(Rest(1), Top, Here, TRUE, command_queue,
                      w \o Tokens(<<"'">>, "quote", Here), overflow_checks,
                      command_queue, Len(w))
       ELSE /\ stack' = <<>>
            /\ result' = UnexpectedArgs("Quote", sub)
            /\ UNCHANGED <<w, command_queue, overflow_checks, returned>>

\* interpret, the Group arm with an empty sub: lines 143, 155-157.
InterpretGroupEmpty(d) ==
    /\ InTree
    /\ nodes < limit
    /\ Reveal(Node("Group", d, "empty"))
    /\ UNCHANGED interp
    /\ Resume(Rest(1), Top, Here, FALSE, command_queue, w, overflow_checks,
              command_queue, Len(w))

\* interpret, the Group arm: lines 143-146, up to the call of interpret_tree.
InterpretGroup(d) ==
    /\ InTree
    /\ nodes + 2 <= limit
    /\ Depth < MaxDepth
    /\ Reveal(Node("Group", d, "nonempty"))
    /\ command_queue' = Append(command_queue, WriteStr(<<left(d)>>, "left", Here))
    /\ stack' = stack \o
          <<[fn |-> "Group", n |-> Here, d |-> d, len |-> Len(command_queue),
             ctx |-> Top.context, q0 |-> command_queue, w0 |-> Len(w)],
            TreeFrame(Here, Top.context)>>
    /\ UNCHANGED <<interp, w, result, overflow_checks, returned>>

\* interpret_tree for the sub of a Group returns: line 128, then lines 146-154.
ReturnToGroup ==
    /\ InTree
    /\ Top.i > 1
    /\ Below(1).fn = "Group"
    /\ UNCHANGED <<interp, exps, nodes>>
    /\ \E o \in tree_end :
          IF o.panic
          THEN Panic
          ELSE LET g == Below(1) IN
               IF Top.wrote
               THEN \/ WriteError(<<>>, o.queue)
                    \/ Resume(Rest(3), Below(2), g.n, TRUE, o.queue,
                              w \o Tokens(<<right(g.d)>>, "right", g.n), o.oc, g.q0, g.w0)
               ELSE Resume(Rest(3), Below(2), g.n, FALSE, pop_to(o.queue, g.len), w,
                           o.oc, g.q0, g.w0)

\* interpret_format whose sub is empty: interpret_tree returns (context, false)
\* without a step of its loop; lines 254-267.
InterpretFormatEmpty(style) ==
    /\ InTree
    /\ nodes < limit
    /\ Reveal(Node("Format", style, "empty"))
    /\ UNCHANGED interp
    /\ LET len == Len(command_queue)
           context == add_assign(Top.context, style)
           pushed == Append(command_queue, WriteContext(context, Here))
       IN Resume(Rest(1), Top, Here, FALSE, pop_to(pushed, len), w, overflow_checks,
                 command_queue, Len(w))

\* interpret_format: lines 254-259, up to the call of interpret_tree.
InterpretFormat(style) ==
    /\ InTree
    /\ nodes + 2 <= limit
    /\ Depth < MaxDepth
    /\ Reveal(Node("Format", style, "nonempty"))
    /\ LET context == add_assign(Top.context, style) IN
       /\ command_queue' = Append(command_queue, WriteContext(context, Here))
       /\ stack' = stack \o
             <<[fn |-> "interpret_format", n |-> Here, prev |-> Top.context,
                context |-> context, len |-> Len(command_queue),
                q0 |-> command_queue, w0 |-> Len(w)],
               TreeFrame(Here, context)>>
    /\ UNCHANGED <<interp, w, result, overflow_checks, returned>>

\* interpret_tree for the sub of a Format returns: line 128, then lines 259-267.
ReturnToFormat ==
    /\ InTree
    /\ Top.i > 1
    /\ Below(1).fn = "interpret_format"
    /\ UNCHANGED <<interp, exps, nodes>>
    /\ \E o \in tree_end :
          IF o.panic
          THEN Panic
          ELSE LET f == Below(1)
                   toks == Tokens(write_difference(f.prev, f.context, bash_prompt),
                                  "difference", f.n)
               IN IF Top.wrote
                  THEN \E k \in 0..Len(toks) :
                          IF k < Len(toks)
                          THEN WriteError(SubSeq(toks, 1, k), o.queue)
                          ELSE Resume(Rest(3), Below(2), f.n, TRUE, o.queue, w \o toks,
                                      o.oc, f.q0, f.w0)
                  ELSE Resume(Rest(3), Below(2), f.n, FALSE, pop_to(o.queue, f.len), w,
                              o.oc, f.q0, f.w0)

\* A variant of trailing_reset that does not look at wrote.
trailing_reset_always(wrote) == IF allow_color THEN full_reset ELSE <<>>

\* evaluate, lines 69-75: what is written once the root tree has returned
trailing_reset(wrote) == IF wrote /\ allow_color THEN full_reset ELSE <<>>

\* interpret_tree for the root tree returns to evaluate: line 128, then
\* lines 67-79.
ReturnToEvaluate ==
    /\ InTree
    /\ Below(1).fn = "evaluate"
    /\ UNCHANGED <<interp, exps, nodes>>
    /\ \E o \in tree_end :
          IF o.panic
          THEN Panic
          ELSE LET toks == Tokens(trailing_reset(Top.wrote), "reset", <<>>)
               IN \E k \in 0..Len(toks) :
                     IF k < Len(toks)
                     THEN /\ WriteError(SubSeq(toks, 1, k), o.queue)
                     ELSE /\ w' = w \o toks
                          /\ command_queue' = <<>>
                          /\ stack' = <<>>
                          /\ result' = Ok
                          /\ overflow_checks' = o.oc
                          /\ UNCHANGED returned

Next ==
    \/ Evaluate
    \/ \E s \in SeparatorsUsed : InterpretTreeSeparator(s)
    \/ \E literal \in LiteralsUsed : InterpretLiteral(literal)
    \/ \E name \in NamesUsed, sub \in SubsUsed : OptionalPrefixEmpty(name, sub)
    \/ \E name \in NamesUsed : OptionalPrefixNoSub(name)
    \/ \E name \in NamesUsed : OptionalPrefixSub(name)
    \/ ReturnToOptionalPrefix
    \/ \E sub \in SubsUsed : InterpretQuote(sub)
    \/ \E d \in DelimitersUsed : InterpretGroupEmpty(d)
    \/ \E d \in DelimitersUsed : InterpretGroup(d)
    \/ ReturnToGroup
    \/ \E style \in StylesUsed : InterpretFormatEmpty(style)
    \/ \E style \in StylesUsed : InterpretFormat(style)
    \/ ReturnToFormat
    \/ ReturnToEvaluate

Spec == Init /\ [][Next]_vars

\* Longer trees of literals, separators, stats and square groups, without
\* color, for a repository that is ahead but not behind: what the loop of
\* interpret_tree does with sequences of siblings.
InitSiblings ==
    /\ stats = StatsAhead
    /\ allow_color = FALSE
    /\ bash_prompt = FALSE
    /\ command_queue = <<>>
    /\ w = <<>>
    /\ stack = <<>>
    /\ result = [kind |-> "None", exp |-> NoExp]
    /\ overflow_checks = "undetermined"
    /\ exps = <<>>
    /\ returned = NoCall
    /\ nodes = 0
    /\ limit = MaxSiblings
    /\ NoFormat

NextSiblings ==
    \/ Evaluate
    \/ \E s \in SeparatorsUsed : InterpretTreeSeparator(s)
    \/ \E literal \in LiteralsUsed : InterpretLiteral(literal)
    \/ \E name \in NamesSiblings : OptionalPrefixEmpty(name, "empty")
    \/ \E name \in NamesSiblings : OptionalPrefixNoSub(name)
    \/ InterpretGroup("Square")
    \/ ReturnToGroup
    \/ ReturnToEvaluate

SpecSiblings == InitSiblings /\ [][NextSiblings]_vars

\* The literals of formats such as '' and 'a': the empty string is a literal
\* that parse accepts.
LiteralsWritten == {"", "a"}

InitLiterals ==
    /\ stats = StatsAhead
    /\ allow_color \in BOOLEAN
    /\ bash_prompt = FALSE
    /\ command_queue = <<>>
    /\ w = <<>>
    /\ stack = <<>>
    /\ result = [kind |-> "None", exp |-> NoExp]
    /\ overflow_checks = "undetermined"
    /\ exps = <<>>
    /\ returned = NoCall
    /\ nodes = 0
    /\ limit = MaxNodes
    /\ NoFormat

NextLiterals ==
    \/ Evaluate
    \/ \E literal \in LiteralsWritten : InterpretLiteral(literal)
    \/ OptionalPrefixEmpty("Behind", "empty")
    \/ InterpretGroup("Square")
    \/ ReturnToGroup
    \/ InterpretFormat([CompleteStyle_default EXCEPT !.bold = TRUE])
    \/ ReturnToFormat
    \/ ReturnToEvaluate

\* Trees of literals, empty ones among them, in groups and formats.
SpecLiterals == InitLiterals /\ [][NextLiterals]_vars

----------------------------------------------------------------------------
(* lib/parser.rs and lib/parser/combinator.rs *)
(*                                                                         *)
(* A &str is a sequence of one-character strings; the rest of the input a  *)
(* parser returns is a suffix of the input it was given.  A parser is an   *)
(* operator from its input to an IResult: Ok((rest, val)), Err(Error(e)),  *)
(* Err(Failure(e)), or the panic of the thread that runs the parser.       *)

\* enum Expression (a Tree is the sequence of its expressions)
Named(name, sub) == [kind |-> "Named", name |-> name, sub |-> sub]
Format(style, sub) == [kind |-> "Format", style |-> style, sub |-> sub]
Group(d, sub) == [kind |-> "Group", d |-> d, sub |-> sub]
Literal(string) == [kind |-> "Literal", string |-> string]
Separator(s) == [kind |-> "Separator", s |-> s]

\* enum ParseErrorKind; c is the char of MissingDelimiter and MissingChar,
\* the nom ErrorKind of Other, and "" otherwise
ParseErrorKind(kind, c) == [kind |-> kind, c |-> c]

\* Option<(&str, &'static str)>: None is <<>>, Some((input, context)) is the pair
from_error_kind(input, kind) ==
    [error |-> <<input, ParseErrorKind("Other", kind)>>, context |-> <<>>, top |-> <<>>]

from_char(input, missing) ==
    [error |-> <<input, ParseErrorKind("MissingChar", missing)>>,
     context |-> <<>>, top |-> <<>>]

add_context(input, ctx, other) ==
    [other EXCEPT !.context = IF other.context # <<>> THEN other.context
                                                      ELSE <<input, ctx>>,
                  !.top = <<input, ctx>>]

missing_delimiter(input, other, delimiter) ==
    [other EXCEPT !.error = <<input, ParseErrorKind("MissingDelimiter", delimiter)>>]

missing_name(input, other) ==
    [other EXCEPT !.error = <<input, ParseErrorKind("UnrecognizedName", "")>>]

missing_style(input, other) ==
    [other EXCEPT !.error = <<input, ParseErrorKind("UnrecognizedStyle", "")>>]

\* A variant of char_to_delimiter that keeps MissingChar.
char_to_delimiter_kept(input, other) == other

char_to_delimiter(input, other) ==
    IF other.error[2].kind = "MissingChar"
    THEN [other EXCEPT !.error = <<input, ParseErrorKind("MissingDelimiter", other.error[2].c)>>]
    ELSE other

invalid_rgb(input, other) ==
    [other EXCEPT !.error = <<input, ParseErrorKind("InvalidRGB", "")>>]

unclosed_string(input, other) ==
    [other EXCEPT !.error = <<input, ParseErrorKind("UnclosedString", "")>>]

\* The element of a singleton set: The({body : r \in {call}}) is body with
\* r the result of call, which is computed once.
The(S) == CHOOSE out \in S : TRUE

\* IResult
IResult_Ok(rest, val) == [class |-> "Ok", rest |-> rest, val |-> val]
Err_Error(err) == [class |-> "Error", err |-> err]
Err_Failure(err) == [class |-> "Failure", err |-> err]
Panicked == [class |-> "Panic"]

\* combinator.rs
\* (mapped is what the closure map_err makes of the input and of r.err)
map_err(r, mapped) ==
    IF r.class \in {"Error", "Failure"} THEN [r EXCEPT !.err = mapped] ELSE r

map_fail(r, mapped) ==
    IF r.class \in {"Error", "Failure"} THEN Err_Failure(mapped) ELSE r

\* nom::character::complete::char
char(input, c) ==
    IF input # <<>> /\ Head(input) = c
    THEN IResult_Ok(Tail(input), c)
    ELSE Err_Error(from_char(input, c))

\* nom::bytes::complete::tag
tag(input, t) ==
    IF Len(input) >= Len(t) /\ SubSeq(input, 1, Len(t)) = t
    THEN IResult_Ok(SubSeq(input, Len(t) + 1, Len(input)), t)
    ELSE Err_Error(from_error_kind(input, "Tag"))

\* A variant of take_until that also stops at a right square bracket.
take_until_bracket(input, c) ==
    LET found == {k \in 1..Len(input) : input[k] \in {c, "]"}}
    IN  IF found = {}
        THEN Err_Error(from_error_kind(input, "TakeUntil"))
        ELSE LET k == CHOOSE k \in found : \A j \in found : k <= j
             IN  IResult_Ok(SubSeq(input, k, Len(input)), SubSeq(input, 1, k - 1))

\* nom::bytes::complete::take_until, for a pattern of one character
take_until(input, c) ==
    LET found == {k \in 1..Len(input) : input[k] = c}
    IN  IF found = {}
        THEN Err_Error(from_error_kind(input, "TakeUntil"))
        ELSE LET k == CHOOSE k \in found : \A j \in found : k <= j
             IN  IResult_Ok(SubSeq(input, k, Len(input)), SubSeq(input, 1, k - 1))

\* nom::branch::alt over a table of tags, tried in order: the value of the
\* first tag the input starts with, else the error of the last alternative
alt_tags(input, table, last_error) ==
    LET hits == {k \in 1..Len(table) : tag(input, table[k][1]).class = "Ok"}
    IN  IF hits = {}
        THEN Err_Error(last_error)
        ELSE LET k == CHOOSE k \in hits : \A j \in hits : k <= j
             IN  IResult_Ok(tag(input, table[k][1]).rest, table[k][2])

literal_expression(input) ==
    The({IF open.class # "Ok" THEN open
         ELSE The({IF contents.class # "Ok"
                   THEN map_fail(contents, unclosed_string(open.rest, contents.err))
                   ELSE The({IF close.class # "Ok" THEN close
                             ELSE IResult_Ok(close.rest, Literal(contents.val))
                             : close \in {char(contents.rest, "'")}})
                   : contents \in {take_until(open.rest, "'")}})
         : open \in {char(input, "'")}})

\* the alternatives of separator_expression, in order
separators ==
    << <<<<as_str("At")>>, "At">>, <<<<as_str("Bar")>>, "Bar">>,
       <<<<as_str("Dot")>>, "Dot">>, <<<<as_str("Comma")>>, "Comma">>,
       <<<<as_str("Space")>>, "Space">>, <<<<as_str("Colon")>>, "Colon">>,
       <<<<as_str("Semicolon")>>, "Semicolon">>,
       <<<<as_str("Underscore")>>, "Underscore">> >>

separator_expression(input) ==
    LET sep == alt_tags(input, separators, from_error_kind(input, "Tag"))
    IN  IF sep.class = "Ok" THEN IResult_Ok(sep.rest, Separator(sep.val)) ELSE sep

\* the alternatives of name in named_expression, in order
names ==
    << <<<<"h">>, "Stashed">>, <<<<"b">>, "Branch">>, <<<<"B">>, "Remote">>,
       <<<<"+">>, "Ahead">>, <<<<"-">>, "Behind">>, <<<<"u">>, "Conflict">>,
       <<<<"A">>, "Added">>, <<<<"a">>, "Untracked">>, <<<<"M">>, "Modified">>,
       <<<<"m">>, "Unstaged">>, <<<<"d">>, "Deleted">>, <<<<"D">>, "DeletedStaged">>,
       <<<<"R">>, "Renamed">>, <<<<"\\", "'">>, "Quote">> >>

\* enum Style
Reset == [style |-> "Reset", color |-> "None"]
Bold == [style |-> "Bold", color |-> "None"]
Underline == [style |-> "Underline", color |-> "None"]
Italic == [style |-> "Italic", color |-> "None"]
Fg(color) == [style |-> "Fg", color |-> color]
Bg(color) == [style |-> "Bg", color |-> color]

\* Color::RGB(r, g, b), a value next to the eight named colors
RGB(r, g, b) ==
    "RGB(" \o u16_to_string(r) \o "," \o u16_to_string(g) \o "," \o u16_to_string(b) \o ")"

\* A variant of add in which Reset only clears the colors.
add_reset_colors(self, style) ==
    CASE style.style = "Fg" -> [self EXCEPT !.fg = style.color]
      [] style.style = "Bg" -> [self EXCEPT !.bg = style.color]
      [] style.style = "Bold" -> [self EXCEPT !.bold = TRUE]
      [] style.style = "Italic" -> [self EXCEPT !.italics = TRUE]
      [] style.style = "Underline" -> [self EXCEPT !.underline = TRUE]
      [] style.style = "Reset" -> [self EXCEPT !.fg = "None", !.bg = "None"]

\* CompleteStyle::add
add(self, style) ==
    CASE style.style = "Fg" -> [self EXCEPT !.fg = style.color]
      [] style.style = "Bg" -> [self EXCEPT !.bg = style.color]
      [] style.style = "Bold" -> [self EXCEPT !.bold = TRUE]
      [] style.style = "Italic" -> [self EXCEPT !.italics = TRUE]
      [] style.style = "Underline" -> [self EXCEPT !.underline = TRUE]
      [] style.style = "Reset" -> CompleteStyle_default

\* the alternatives of styles in style_token, in order
style_tags ==
    << <<<<"~">>, Reset>>, <<<<"*">>, Bold>>, <<<<"_">>, Underline>>,
       <<<<"i">>, Italic>>,
       <<<<"r">>, Fg("Red")>>, <<<<"R">>, Bg("Red")>>,
       <<<<"g">>, Fg("Green")>>, <<<<"G">>, Bg("Green")>>,
       <<<<"y">>, Fg("Yellow")>>, <<<<"Y">>, Bg("Yellow")>>,
       <<<<"b">>, Fg("Blue")>>, <<<<"B">>, Bg("Blue")>>,
       <<<<"m">>, Fg("Magenta")>>, <<<<"M">>, Bg("Magenta")>>,
       <<<<"c">>, Fg("Cyan")>>, <<<<"C">>, Bg("Cyan")>>,
       <<<<"w">>, Fg("White")>>, <<<<"W">>, Bg("White")>>,
       <<<<"k">>, Fg("Black")>>, <<<<"K">>, Bg("Black")>> >>

\* u8::MAX
u8_MAX == 255

\* str::parse::<u8> reads decimal digits; the value before the range check
RECURSIVE from_str_radix(_)
from_str_radix(input) ==
    IF input = <<>>
    THEN 0
    ELSE from_str_radix(SubSeq(input, 1, Len(input) - 1)) * 10
         + (CHOOSE k \in 0..9 : Digit[k + 1] = input[Len(input)])

\* parse() is Err(PosOverflow) above u8::MAX, and expect panics on Err
u8_from_bytes(input) ==
    IF from_str_radix(input) > u8_MAX
    THEN Panicked
    ELSE [class |-> "Ok", val |-> from_str_radix(input)]

\* nom::bytes::complete::take_while1(is_digit) mapped with u8_from_bytes
digit(input) ==
    LET is_digit(c) == \E k \in 1..Len(Digit) : Digit[k] = c
        stops == {k \in 1..Len(input) : ~is_digit(input[k])}
        n == IF stops = {} THEN Len(input)
             ELSE (CHOOSE k \in stops : \A j \in stops : k <= j) - 1
        value == u8_from_bytes(SubSeq(input, 1, n))
    IN  IF n = 0 THEN Err_Error(from_error_kind(input, "TakeWhile1"))
        ELSE IF value.class = "Panic" THEN Panicked
        ELSE IResult_Ok(SubSeq(input, n + 1, Len(input)), value.val)

\* nom::sequence::terminated(digit, char(','))
digit_comma(input) ==
    The({IF d.class # "Ok" THEN d
         ELSE The({IF comma.class # "Ok" THEN comma ELSE IResult_Ok(comma.rest, d.val)
                   : comma \in {char(d.rest, ",")}})
         : d \in {digit(input)}})

u8_triple(input) ==
    The({IF r.class # "Ok" THEN r
         ELSE The({IF g.class # "Ok" THEN g
                   ELSE The({IF b.class # "Ok" THEN b
                             ELSE IResult_Ok(b.rest, RGB(r.val, g.val, b.val))
                             : b \in {digit(g.rest)}})
                   : g \in {digit_comma(r.rest)}})
         : r \in {digit_comma(input)}})

\* fg_rgb and bg_rgb of style_token: delimited(char(l), u8_triple, char(r))
rgb(input, l, r) ==
    The({IF open.class # "Ok" THEN open
         ELSE The({IF triple.class # "Ok"
                   THEN map_fail(triple, invalid_rgb(open.rest, triple.err))
                   ELSE The({IF close.class # "Ok"
                             THEN map_fail(close, char_to_delimiter(triple.rest, close.err))
                             ELSE IResult_Ok(close.rest, triple.val)
                             : close \in {char(triple.rest, r)}})
                   : triple \in {u8_triple(open.rest)}})
         : open \in {char(input, l)}})

style_token(input) ==
    The({IF fg_rgb.class = "Ok" THEN IResult_Ok(fg_rgb.rest, Fg(fg_rgb.val))
         ELSE IF fg_rgb.class # "Error" THEN fg_rgb
         ELSE The({IF bg_rgb.class = "Ok" THEN IResult_Ok(bg_rgb.rest, Bg(bg_rgb.val))
                   ELSE IF bg_rgb.class # "Error" THEN bg_rgb
                   ELSE The({map_err(styles_, missing_style(input, styles_.err))
                             : styles_ \in {alt_tags(input, style_tags,
                                                     from_char(input, "K"))}})
                   : bg_rgb \in {rgb(input, "{", "}")}})
         : fg_rgb \in {rgb(input, "[", "]")}})

\* nom::multi::fold_many1(style_token, CompleteStyle::default(), add): the
\* loop after the first token
RECURSIVE fold_many1_loop(_, _)
fold_many1_loop(input, acc) ==
    The({IF r.class = "Error" THEN IResult_Ok(input, acc)
         ELSE IF r.class # "Ok" THEN r
         ELSE IF r.rest = input THEN Err_Failure(from_error_kind(r.rest, "Many1"))
         ELSE fold_many1_loop(r.rest, add(acc, r.val))
         : r \in {style_token(input)}})

\* tokens of format_expression
tokens(input) ==
    The({IF r.class = "Error" THEN Err_Error(from_error_kind(input, "Many1"))
         ELSE IF r.class # "Ok" THEN r
         ELSE fold_many1_loop(r.rest, add(CompleteStyle_default, r.val))
         : r \in {style_token(input)}})

RECURSIVE expression(_)

\* the right parser of sub_tree ("missing_delimiter") and of group!
\* ("char_to_delimiter"), applied at i; input is the input of sub_tree or of
\* group_expression, which the closure captures
right_delimiter(input, i, rc, how) ==
    map_err(char(i, rc),
            IF how = "missing_delimiter"
            THEN missing_delimiter(input, char(i, rc).err, rc)
            ELSE char_to_delimiter(input, char(i, rc).err))

\* combinator.rs, delimited_many0: the loop, with input the rest after left
RECURSIVE delimited_many0_loop(_, _, _, _, _, _)
delimited_many0_loop(outer, input, i, items, rc, how) ==
    The({IF item.class = "Error"
         THEN The({IF r.class = "Ok" THEN IResult_Ok(r.rest, items)
                   ELSE IF r.class = "Error"
                   THEN IF Len(i) = 0
                        THEN Err_Failure(r.err)
                        ELSE Err_Failure(add_context(input, "expression", item.err))
                   ELSE r
                   : r \in {right_delimiter(outer, i, rc, how)}})
         ELSE IF item.class # "Ok" THEN item
         ELSE IF item.rest = i THEN Err_Error(from_error_kind(i, "Many0"))
         ELSE delimited_many0_loop(outer, input, item.rest, Append(items, item.val),
                                   rc, how)
         : item \in {expression(i)}})

\* delimited_many0(left, expression, right) applied to outer; l is what
\* left returned for outer
delimited_many0(outer, l, rc, how) ==
    IF l.class # "Ok" THEN l
    ELSE delimited_many0_loop(outer, l.rest, l.rest, <<>>, rc, how)

sub_tree(input) == delimited_many0(input, char(input, "("), ")", "missing_delimiter")

named_expression(input) ==
    The({IF name.class # "Ok" THEN map_err(name, missing_name(input, name.err))
         ELSE The({IF args.class = "Error"
                   THEN IResult_Ok(name.rest, Named(name.val, <<>>))
                   ELSE IF args.class # "Ok"
                   THEN map_err(args, add_context(input, "expression", args.err))
                   ELSE IResult_Ok(args.rest, Named(name.val, args.val))
                   : args \in {sub_tree(name.rest)}})
         : name \in {alt_tags(input, names, from_error_kind(input, "Tag"))}})

format_expression(input) ==
    The({IF hash.class # "Ok" THEN hash
         ELSE The({IF style.class # "Ok"
                   THEN map_fail(style, IF style.err.error[2].kind = "Other"
                                        THEN missing_style(hash.rest, style.err)
                                        ELSE style.err)
                   ELSE The({IF args.class = "Error" THEN Err_Failure(args.err)
                             ELSE IF args.class # "Ok" THEN args
                             ELSE IResult_Ok(args.rest, Format(style.val, args.val))
                             : args \in {sub_tree(style.rest)}})
                   : style \in {tokens(hash.rest)}})
         : hash \in {tag(input, <<"#">>)}})

\* macro group! of group_expression
group(input, l, r, d) ==
    The({IF sub.class = "Ok" THEN IResult_Ok(sub.rest, Group(d, sub.val)) ELSE sub
         : sub \in {delimited_many0(input, tag(input, l), r, "char_to_delimiter")}})

group_expression(input) ==
    The({IF angle.class # "Error" THEN angle
         ELSE The({IF square.class # "Error" THEN square
                   ELSE The({IF curly.class # "Error" THEN curly
                             ELSE group(input, <<"\\", "(">>, ")", "Parens")
                             : curly \in {group(input, <<"{">>, "}", "Curly")}})
                   : square \in {group(input, <<"[">>, "]", "Square")}})
         : angle \in {group(input, <<"<">>, ">", "Angle")}})

\* nom::error::context
context(ctx, input, r) == map_err(r, add_context(input, ctx, r.err))

expression(input) ==
    The({IF group_.class # "Error" THEN context("group", input, group_)
         ELSE The({IF string.class # "Error" THEN context("string", input, string)
                   ELSE The({IF format.class # "Error"
                             THEN context("format", input, format)
                             ELSE The({IF separator.class # "Error" THEN separator
                                       ELSE named_expression(input)
                                       : separator \in {separator_expression(input)}})
                             : format \in {format_expression(input)}})
                   : string \in {literal_expression(input)}})
         : group_ \in {group_expression(input)}})

\* nom::multi::many0(expression)
RECURSIVE many0(_, _)
many0(i, acc) ==
    The({IF r.class = "Error" THEN IResult_Ok(i, acc)
         ELSE IF r.class # "Ok" THEN r
         ELSE IF r.rest = i THEN Err_Error(from_error_kind(i, "Many0"))
         ELSE many0(r.rest, Append(acc, r.val))
         : r \in {expression(i)}})

expression_tree(input) == many0(input, <<>>)

\* A variant of all_consuming that accepts a parsed prefix.
all_consuming_prefix(r) == r

\* nom::combinator::all_consuming
all_consuming(r) ==
    IF r.class = "Ok" /\ Len(r.rest) # 0
    THEN Err_Error(from_error_kind(r.rest, "Eof"))
    ELSE r

\* parse: Ok(tree), Err(e) for Err::Error(e) and for Err::Failure(e)
parse(input) ==
    The({IF r.class = "Ok" THEN [class |-> "Ok", val |-> r.val]
         ELSE IF r.class = "Panic" THEN Panicked
         ELSE [class |-> "Err", err |-> r.err]
         : r \in {The({all_consuming(tree_) : tree_ \in {expression_tree(input)}})}})

----------------------------------------------------------------------------
(* lib/ast.rs: Display *)

\* A variant of Name_fmt that prints Renamed as "r".
Name_fmt_lowercase(name) ==
    CASE name = "Stashed" -> <<"h">>
      [] name = "Branch" -> <<"b">>
      [] name = "Remote" -> <<"B">>
      [] name = "Ahead" -> <<"+">>
      [] name = "Behind" -> <<"-">>
      [] name = "Conflict" -> <<"u">>
      [] name = "Added" -> <<"A">>
      [] name = "Untracked" -> <<"a">>
      [] name = "Modified" -> <<"M">>
      [] name = "Unstaged" -> <<"m">>
      [] name = "Deleted" -> <<"d">>
      [] name = "DeletedStaged" -> <<"D">>
      [] name = "Renamed" -> <<"r">>
      [] name = "Quote" -> <<"\\", "'">>

\* impl Display for Name
Name_fmt(name) ==
    CASE name = "Stashed" -> <<"h">>
      [] name = "Branch" -> <<"b">>
      [] name = "Remote" -> <<"B">>
      [] name = "Ahead" -> <<"+">>
      [] name = "Behind" -> <<"-">>
      [] name = "Conflict" -> <<"u">>
      [] name = "Added" -> <<"A">>
      [] name = "Untracked" -> <<"a">>
      [] name = "Modified" -> <<"M">>
      [] name = "Unstaged" -> <<"m">>
      [] name = "Deleted" -> <<"d">>
      [] name = "DeletedStaged" -> <<"D">>
      [] name = "Renamed" -> <<"R">>
      [] name = "Quote" -> <<"\\", "'">>

\* the values of an RGB channel that generated styles use
Channels == {0, 42, 255}

\* the channels (r, g, b) of Color::RGB(r, g, b)
channels(color) ==
    CHOOSE t \in Channels \X Channels \X Channels : RGB(t[1], t[2], t[3]) = color

\* impl Display for u8
RECURSIVE u8_fmt(_)
u8_fmt(v) ==
    IF v < 10 THEN <<Digit[v + 1]>> ELSE u8_fmt(v \div 10) \o <<Digit[(v % 10) + 1]>>

\* impl Display for Style
Style_fmt(style) ==
    CASE style = Reset -> <<"~">>
      [] style = Bold -> <<"*">>
      [] style = Underline -> <<"_">>
      [] style = Italic -> <<"i">>
      [] style = Fg("Red") -> <<"r">>
      [] style = Bg("Red") -> <<"R">>
      [] style = Fg("Green") -> <<"g">>
      [] style = Bg("Green") -> <<"G">>
      [] style = Fg("Yellow") -> <<"y">>
      [] style = Bg("Yellow") -> <<"Y">>
      [] style = Fg("Blue") -> <<"b">>
      [] style = Bg("Blue") -> <<"B">>
      [] style = Fg("Magenta") -> <<"m">>
      [] style = Bg("Magenta") -> <<"M">>
      [] style = Fg("Cyan") -> <<"c">>
      [] style = Bg("Cyan") -> <<"C">>
      [] style = Fg("White") -> <<"w">>
      [] style = Bg("White") -> <<"W">>
      [] style = Fg("Black") -> <<"k">>
      [] style = Bg("Black") -> <<"K">>
      [] style.style = "Fg" /\ style.color \notin Colors ->
            <<"[">> \o u8_fmt(channels(style.color)[1]) \o <<",">>
            \o u8_fmt(channels(style.color)[2]) \o <<",">>
            \o u8_fmt(channels(style.color)[3]) \o <<"]">>
      [] style.style = "Bg" /\ style.color \notin Colors ->
            <<"{">> \o u8_fmt(channels(style.color)[1]) \o <<",">>
            \o u8_fmt(channels(style.color)[2]) \o <<",">>
            \o u8_fmt(channels(style.color)[3]) \o <<"}">>

\* impl Display for CompleteStyle
CompleteStyle_fmt(self) ==
    IF self = CompleteStyle_default
    THEN Style_fmt(Reset)
    ELSE (IF self.fg # "None" THEN Style_fmt(Fg(self.fg)) ELSE <<>>)
         \o (IF self.bg # "None" THEN Style_fmt(Bg(self.bg)) ELSE <<>>)
         \o (IF self.bold THEN Style_fmt(Bold) ELSE <<>>)
         \o (IF self.italics THEN Style_fmt(Italic) ELSE <<>>)
         \o (IF self.underline THEN Style_fmt(Underline) ELSE <<>>)

\* A variant of Group_open in which the parentheses open without a backslash.
Group_open_unescaped(d) == <<left(d)>>

\* impl Display for Expression, Group: what is written before the sub-tree
Group_open(d) ==
    CASE d = "Square" -> <<"[">>
      [] d = "Angle" -> <<"<">>
      [] d = "Parens" -> <<"\\", "(">>
      [] d = "Curly" -> <<"{">>

\* impl Display for Expression, Group: what is written after the sub-tree
Group_close(d) ==
    CASE d = "Square" -> <<"]">>
      [] d = "Angle" -> <<">">>
      [] d = "Parens" -> <<")">>
      [] d = "Curly" -> <<"}">>

\* impl Display for Expression and for Tree
RECURSIVE Tree_fmt(_)
Expression_fmt(exp) ==
    CASE exp.kind = "Named" ->
            Name_fmt(exp.name)
            \o (IF exp.sub = <<>> THEN <<>> ELSE <<"(">> \o Tree_fmt(exp.sub) \o <<")">>)
      [] exp.kind = "Group" ->
            Group_open(exp.d) \o Tree_fmt(exp.sub) \o Group_close(exp.d)
      [] exp.kind = "Format" ->
            <<"#">> \o CompleteStyle_fmt(exp.style) \o <<"(">> \o Tree_fmt(exp.sub) \o <<")">>
      [] exp.kind = "Literal" -> <<"'">> \o exp.string \o <<"'">>
      [] exp.kind = "Separator" -> <<as_str(exp.s)>>

Tree_fmt(t) == IF t = <<>> THEN <<>> ELSE Expression_fmt(Head(t)) \o Tree_fmt(Tail(t))

----------------------------------------------------------------------------
(* Formats handed to parse *)

\* No format has been handed to parse; the interpreter is not used.
InitFormat ==
    /\ stats = Stats_default
    /\ allow_color = FALSE
    /\ bash_prompt = FALSE
    /\ command_queue = <<>>
    /\ w = <<>>
    /\ stack = <<>>
    /\ result = [kind |-> "None", exp |-> NoExp]
    /\ overflow_checks = "undetermined"
    /\ exps = <<>>
    /\ returned = NoCall
    /\ nodes = 0
    /\ limit = 0
    /\ NoFormat

\* text is kept in the pieces it was put together from; the &str is their
\* concatenation
RECURSIVE Flatten(_)
Flatten(pieces) == IF pieces = <<>> THEN <<>> ELSE Head(pieces) \o Flatten(Tail(pieces))

\* parse(text)
Parse ==
    /\ parsed = NotParsed
    /\ parsed' = parse(Flatten(text))
    /\ UNCHANGED <<interpreter, text, tree, styles, complete>>

\* Values that generated trees are made of (ast.rs, arb_name, arb_style,
\* "[^']*", arb_separator, arb_delimiter).
NamesArb == {"Branch", "Quote"}
StylesArb ==
    {CompleteStyle_default,
     [CompleteStyle_default EXCEPT !.fg = RGB(0, 42, 255), !.bg = "Blue", !.bold = TRUE]}
LiteralsArb == {<<>>, <<"a", "]", "b">>}
SeparatorsArb == {"Underscore"}

\* arb_expression, leaf
Leaves ==
    {Named(name, <<>>) : name \in NamesArb}
    \cup {Format(style, <<>>) : style \in StylesArb}
    \cup {Literal(string) : string \in LiteralsArb}
    \cup {Separator(s) : s \in SeparatorsArb}

\* arb_expression, the recursive cases around the sub-tree sub
Recursive(sub) ==
    {Named(name, sub) : name \in NamesArb}
    \cup {Format(style, sub) : style \in StylesArb}
    \cup {Group(d, sub) : d \in Delimiters}

\* the sub-tree of an expression (none below a Literal or a Separator)
sub_of(exp) == IF exp.kind \in {"Named", "Format", "Group"} THEN exp.sub ELSE <<>>

\* number of expressions of a tree
RECURSIVE Size(_)
Size(t) == IF t = <<>> THEN 0 ELSE 1 + Size(sub_of(Head(t))) + Size(Tail(t))

\* One more expression is generated, in postfix order: a leaf is appended
\* to the tree; text is the Display of the tree.
ArbLeaf(exp) ==
    /\ parsed = NotParsed
    /\ Size(tree) < MaxTree
    /\ tree' = Append(tree, exp)
    /\ text' = <<Tree_fmt(tree')>>
    /\ UNCHANGED <<interpreter, parsed, styles, complete>>

\* The last k expressions of the tree become the sub-tree of a new Named,
\* Format or Group expression.
ArbRecursive(k) ==
    /\ parsed = NotParsed
    /\ Size(tree) < MaxTree
    /\ k <= Len(tree)
    /\ \E exp \in Recursive(SubSeq(tree, Len(tree) - k + 1, Len(tree))) :
          tree' = Append(SubSeq(tree, 1, Len(tree) - k), exp)
    /\ text' = <<Tree_fmt(tree')>>
    /\ UNCHANGED <<interpreter, parsed, styles, complete>>

NextRoundTrip ==
    \/ \E exp \in Leaves : ArbLeaf(exp)
    \/ \E k \in 0..MaxTree : ArbRecursive(k)
    \/ Parse

\* parse applied to the Display of generated trees
SpecRoundTrip == InitFormat /\ [][NextRoundTrip]_vars

\* Pieces that typed formats are put together from.
PiecesUsed ==
    {<<"[">>, <<"]">>, <<"<">>, <<">">>, <<"{">>, <<"}">>, <<"\\", "(">>, <<"(">>,
     <<")">>, <<"b">>, <<"'", "a">>, <<"'", "a", "]", "b", "'">>, <<"#", "*", "(">>}

Type(piece) ==
    /\ parsed = NotParsed
    /\ Len(text) < MaxPieces
    /\ text' = Append(text, piece)
    /\ UNCHANGED <<interpreter, parsed, tree, styles, complete>>

NextTyped ==
    \/ \E piece \in PiecesUsed : Type(piece)
    \/ Parse

\* parse applied to formats typed piece by piece
SpecTyped == InitFormat /\ [][NextTyped]_vars

\* Channels that typed RGB tokens are put together from.
ChannelsTyped == {<<>>, <<"0">>, <<"2", "5", "5">>, <<"2", "5", "6">>, <<"x">>}

\* channels separated by commas
RECURSIVE Join(_)
Join(chans) ==
    IF chans = <<>> THEN <<>>
    ELSE IF Len(chans) = 1 THEN chans[1]
    ELSE Head(chans) \o <<",">> \o Join(Tail(chans))

\* A Format with one RGB token is typed: "#", the left bracket, the
\* channels, the right bracket (or none) and the sub-tree ('x').
TypeRGB(l, chans, r) ==
    /\ parsed = NotParsed
    /\ text = <<>>
    /\ text' = << <<"#", l>>, Join(chans), r, <<"(", "'", "x", "'", ")">> >>
    /\ UNCHANGED <<interpreter, parsed, tree, styles, complete>>

NextRGB ==
    \/ \E l \in {"[", "{"}, n \in 0..MaxChannels, r \in {<<"]">>, <<"}">>, <<>>} :
          \E chans \in [1..n -> ChannelsTyped] : TypeRGB(l, chans, r)
    \/ Parse

\* parse applied to formats with an RGB token
SpecRGB == InitFormat /\ [][NextRGB]_vars

\* Style tokens (ast.rs, arb_style)
StyleTokens ==
    {Reset, Bold, Underline, Italic}
    \cup {Fg(color) : color \in Colors} \cup {Bg(color) : color \in Colors}
    \cup {Fg(RGB(0, 42, 255)), Bg(RGB(255, 0, 42))}

\* impl Extend<&Style> for CompleteStyle: one step of the loop
Extend(style) ==
    /\ parsed = NotParsed
    /\ Len(styles) < MaxStyles
    /\ styles' = Append(styles, style)
    /\ complete' = add(complete, style)
    /\ UNCHANGED <<interpreter, text, parsed, tree>>

\* The Display of every token of styles is handed to style_token, and the
\* Display of all of them, one after the other, to tokens.
ParseStyles ==
    /\ parsed = NotParsed
    /\ styles # <<>>
    /\ text' = [k \in 1..Len(styles) |-> Style_fmt(styles[k])]
    /\ parsed' = [class |-> "Styles",
                  each |-> [k \in 1..Len(styles) |-> style_token(text'[k])],
                  folded |-> tokens(Flatten(text'))]
    /\ UNCHANGED <<interpreter, tree, styles, complete>>

\* The Display of a name is handed to named_expression.
ParseName(name) ==
    /\ parsed = NotParsed
    /\ styles = <<>>
    /\ tree' = <<Named(name, <<>>)>>
    /\ text' = <<Name_fmt(name)>>
    /\ parsed' = named_expression(Flatten(text'))
    /\ UNCHANGED <<interpreter, styles, complete>>

NextTables ==
    \/ \E style \in StyleTokens : Extend(style)
    \/ ParseStyles
    \/ \E name \in Names : ParseName(name)

\* styles collected, and the tags of names and styles printed and parsed
SpecTables == InitFormat /\ [][NextTables]_vars

----------------------------------------------------------------------------
(* Styles added and compared *)

\* The CompleteStyle values that are added to one another and compared.
StylesAdded ==
    {s \in CompleteStyle :
        s.fg \in {"None", "Red"} /\ s.bg \in {"None", "Blue"} /\ ~s.italics}

\* No style has been added; bash_prompt is either.
InitStyle ==
    /\ stats = Stats_default
    /\ allow_color = TRUE
    /\ bash_prompt \in BOOLEAN
    /\ command_queue = <<>>
    /\ w = <<>>
    /\ stack = <<>>
    /\ result = [kind |-> "None", exp |-> NoExp]
    /\ overflow_checks = "undetermined"
    /\ exps = <<>>
    /\ returned = NoCall
    /\ nodes = 0
    /\ limit = 0
    /\ NoFormat

\* complete += with; styles keeps the operands, the first of which is added
\* to CompleteStyle::default()
AddAssign(with) ==
    /\ parsed = NotParsed
    /\ Len(styles) < MaxStyles
    /\ styles' = Append(styles, with)
    /\ complete' = add_assign(complete, with)
    /\ UNCHANGED <<interpreter, text, parsed, tree>>

\* next.write_difference(w, &prev, bash_prompt) for the last two styles
\* added: the Difference it matches on and the chunks it writes
WriteDifference ==
    /\ parsed = NotParsed
    /\ Len(styles) >= 2
    /\ LET prev == styles[Len(styles) - 1]
           next == styles[Len(styles)]
       IN parsed' = [class |-> "Difference", prev |-> prev, next |-> next,
                     between |-> between(prev, next),
                     written |-> write_difference(next, prev, bash_prompt)]
    /\ UNCHANGED <<interpreter, text, tree, styles, complete>>

NextStyle ==
    \/ \E with \in StylesAdded : AddAssign(with)
    \/ WriteDifference

\* CompleteStyle values added up, and the difference between two of them
SpecStyle == InitStyle /\ [][NextStyle]_vars

----------------------------------------------------------------------------
(* Formats with several style tokens *)

\* The style tokens that typed Formats combine: w, K, r, * and ~.
StylesTyped == {Fg("White"), Bg("Black"), Fg("Red"), Bold, Reset}

\* impl Extend<&Style> for CompleteStyle: self.extend(styles)
RECURSIVE extend(_, _)
extend(self, iter) ==
    IF iter = <<>> THEN self ELSE extend(add(self, Head(iter)), Tail(iter))

\* impl FromIterator<&Style> for CompleteStyle
from_iter(iter) == extend(CompleteStyle_default, iter)

\* the Display of the tokens of toks, one piece each, with sep between them
RECURSIVE Combine(_, _)
Combine(toks, sep) ==
    IF Len(toks) = 1 THEN <<Style_fmt(toks[1])>>
    ELSE <<Style_fmt(Head(toks)), sep>> \o Combine(Tail(toks), sep)

\* A Format with the style tokens toks is typed: "#", the tokens with sep
\* between them, and the sub-tree ('x').
TypeCombined(toks, sep) ==
    /\ parsed = NotParsed
    /\ text = <<>>
    /\ styles' = toks
    /\ text' = << <<"#">> >> \o Combine(toks, sep) \o << <<"(", "'", "x", "'", ")">> >>
    /\ UNCHANGED <<interpreter, parsed, tree, complete>>

NextCombined ==
    \/ \E n \in 1..MaxStyles, sep \in {<<>>, <<";">>} :
          \E toks \in [1..n -> StylesTyped] : TypeCombined(toks, sep)
    \/ Parse

\* parse applied to Formats with several style tokens
SpecCombined == InitFormat /\ [][NextCombined]_vars

----------------------------------------------------------------------------
(* Vocabulary of the properties *)

\* the expression at p is the one at n or an ancestor of it
IsPrefix(p, n) == Len(p) <= Len(n) /\ SubSeq(n, 1, Len(p)) = p

Parent(n) == SubSeq(n, 1, Len(n) - 1)
Index(n) == n[Len(n)]

\* the bytes of a sequence of tokens
RECURSIVE Bytes(_)
Bytes(toks) == IF toks = <<>> THEN "" ELSE Head(toks).b \o Bytes(Tail(toks))

\* tokens of Literal or Named content
ContentRoles == {"literal", "prefix", "value", "quote"}

\* positions of the sink written on behalf of the tree of this evaluate
Current == {j \in 1..Len(w) : ~w[j].stale}

\* the expression at n, or one inside it, wrote content to the sink
WroteContent(n) ==
    \E k \in Current : w[k].role \in ContentRoles /\ IsPrefix(n, w[k].n)

\* the sub-tree of the expression at n wrote content to the sink
SubWroteContent(n) ==
    \E k \in Current :
        w[k].role \in ContentRoles /\ IsPrefix(n, w[k].n) /\ w[k].n # n

EmptyValue(name) ==
    LET a == named_args(name) IN IF a.is_string THEN a.val = "" ELSE a.val = 0

IsStat(n) == n \in DOMAIN exps /\ exps[n].kind = "Named" /\ exps[n].arg # "Quote"

Finished == stack = <<>> /\ result.kind = "Ok"

----------------------------------------------------------------------------
(* Claims *)

\* C1: when evaluate has returned Ok, the sink holds a Group's glyph or a
\* Format's escape only if the sub-tree of that Group or Format wrote Literal
\* or Named content, and a Separator's glyph only if a later sibling of that
\* Separator wrote such content.
C1_GlyphsOnlyWithContent ==
    Finished =>
        \A j \in Current :
            /\ w[j].role \in {"left", "right", "style", "difference"}
                  => SubWroteContent(w[j].n)
            /\ w[j].role = "separator"
                  => \E k \in Current :
                        /\ w[k].role \in ContentRoles
                        /\ IsPrefix(Parent(w[j].n), w[k].n)
                        /\ Len(w[k].n) >= Len(w[j].n)
                        /\ w[k].n[Len(w[j].n)] > Index(w[j].n)

\* C2: the bytes of a Group that wrote are its left glyph, then everything
\* its sub-tree wrote, then its right glyph: the right glyph is in the sink
\* only after the left glyph, with exactly the sub-tree's tokens in between.
C2_GroupBrackets ==
    \A j \in Current :
        w[j].role = "right" =>
            \E i \in Current :
                /\ i < j
                /\ w[i].role = "left"
                /\ w[i].n = w[j].n
                /\ \A k \in Current :
                      (IsPrefix(w[j].n, w[k].n) /\ w[k].n # w[j].n) <=> (i < k /\ k < j)

\* C3: when evaluate has returned Ok, a Separator's glyph is in the sink only
\* if an earlier sibling wrote and the next sibling that is no Separator wrote.
C3_SeparatorsBetweenWriters ==
    Finished =>
        \A j \in Current :
            w[j].role = "separator" =>
                LET p == Parent(w[j].n)
                    i == Index(w[j].n)
                    later == {m \in i + 1..nodes + 1 :
                                 /\ Append(p, m) \in DOMAIN exps
                                 /\ exps[Append(p, m)].kind # "Separator"}
                IN /\ \E m \in 1..i - 1 :
                         /\ exps[Append(p, m)].kind # "Separator"
                         /\ WroteContent(Append(p, m))
                   /\ later # {}
                   /\ \A m \in later :
                         (\A m2 \in later : m <= m2) => WroteContent(Append(p, m))

\* What the call of interpret that returned last wrote for its own expression
\* and the expressions inside it: the sink from the end of the flush of the
\* queue it found to its return.
Output ==
    SubSeq(w, returned.written_before + Len(write_queue(returned.queue_before)) + 1,
           returned.written_after)

\* C4: a Named other than Quote with a non-empty value writes, after the
\* queue it flushes, first what its sub-tree wrote and then its own bytes, and
\* these are the value alone if the sub-tree wrote, the default prefix and the
\* value if the sub-tree is empty or wrote nothing.
C4_PrefixOverride ==
    (IsStat(returned.n) /\ ~EmptyValue(exps[returned.n].arg)) =>
        LET a == named_args(exps[returned.n].arg)
            out == Output
            inner == {j \in 1..Len(out) : out[j].n # returned.n}
            k == Cardinality(inner)
        IN /\ returned.wrote
           /\ \A j \in 1..Len(out) : IsPrefix(returned.n, out[j].n)
           /\ inner = 1..k
           /\ exps[returned.n].sub = "empty" => k = 0
           /\ Bytes(SubSeq(out, k + 1, Len(out))) =
                 IF k > 0 THEN display(a) ELSE a.prefix \o display(a)

C4_Override ==
    /\ Finished
    /\ ~allow_color
    /\ returned.n = <<1>>
    /\ exps[<<1>>] = Node("Named", "Ahead", "nonempty")
    /\ Bytes(w) = "a3"

\* C5: a Named other than Quote with an empty value returns wrote = false,
\* having written nothing and left the queue as it found it, and no
\* expression of its sub-tree is interpreted.
C5_EmptyValueWritesNothing ==
    (IsStat(returned.n) /\ EmptyValue(exps[returned.n].arg)) =>
        /\ ~returned.wrote
        /\ returned.written_after = returned.written_before
        /\ returned.queue_after = returned.queue_before
        /\ \A m \in DOMAIN exps : IsPrefix(returned.n, m) => m = returned.n
        /\ \A j \in Current : w[j].n # returned.n

C5_EmptyWithSub ==
    /\ Finished
    /\ returned.n = <<1>>
    /\ IsStat(<<1>>)
    /\ EmptyValue(exps[<<1>>].arg)
    /\ exps[<<1>>].sub = "nonempty"
    /\ w = <<>>

\* C6: a Group whose sub-tree wrote no content returns wrote = false leaving
\* the sink and the queue as it found them, and when evaluate has returned Ok
\* the sink holds no byte of it, neither its own glyphs nor anything of what
\* is nested in it.
C6_GroupElision ==
    \A g \in DOMAIN exps :
        (exps[g].kind = "Group" /\ ~WroteContent(g)) =>
            /\ Finished => \A j \in Current : ~IsPrefix(g, w[j].n)
            /\ returned.n = g =>
                  /\ ~returned.wrote
                  /\ returned.written_after = returned.written_before
                  /\ returned.queue_after = returned.queue_before

C6_NestedElision ==
    /\ Finished
    /\ allow_color
    /\ returned.n = <<1>>
    /\ exps[<<1>>].kind = "Group"
    /\ <<1, 1>> \in DOMAIN exps
    /\ exps[<<1, 1>>].kind \in {"Group", "Format"}
    /\ <<1, 1, 1>> \in DOMAIN exps
    /\ IsStat(<<1, 1, 1>>)
    /\ w = <<>>

\* C7: with allow_color, when evaluate has returned Ok for a tree that is one
\* Format of a non-empty style whose sub-tree wrote no content, the sink is
\* empty.
C7_FormatElision ==
    (/\ allow_color
     /\ Finished
     /\ DOMAIN exps # {}
     /\ \A n \in DOMAIN exps : IsPrefix(<<1>>, n)
     /\ exps[<<1>>].kind = "Format"
     /\ exps[<<1>>].arg # CompleteStyle_default
     /\ ~WroteContent(<<1>>))
        => w = <<>>

C7_ElidedInBashPrompt ==
    /\ allow_color
    /\ bash_prompt
    /\ Finished
    /\ \A n \in DOMAIN exps : IsPrefix(<<1>>, n)
    /\ <<1, 1>> \in DOMAIN exps
    /\ exps[<<1>>].kind = "Format"
    /\ exps[<<1>>].arg # CompleteStyle_default
    /\ IsStat(<<1, 1>>)
    /\ w = <<>>

\* C8: once evaluate has returned Ok, Err(UnexpectedArgs) or Err(WriteError),
\* the queue is empty.
C8_QueueEmptyAfterReturn ==
    (stack = <<>> /\ result.kind \in {"Ok", "UnexpectedArgs", "WriteError"})
        => command_queue = <<>>

\* the sink starts, respectively ends, with the chunks of `chunks`
StartsWith(chunks) ==
    /\ Len(w) >= Len(chunks)
    /\ \A j \in 1..Len(chunks) : w[j].b = chunks[j]

EndsWith(chunks) ==
    /\ Len(w) >= Len(chunks)
    /\ \A j \in 1..Len(chunks) : w[Len(w) - Len(chunks) + j].b = chunks[j]

\* C9: with allow_color, when evaluate has returned Ok the sink is empty or
\* it starts with the full reset and ends with the full reset.
C9_ResetAtBothEnds ==
    (allow_color /\ Finished) =>
        \/ w = <<>>
        \/ StartsWith(full_reset) /\ EndsWith(full_reset)

\* the escape sequences of lib/color.rs
Escapes ==
    {e("0"), e("1"), e("3"), e("4")}
    \cup {e(fg_code(c)) : c \in Colors} \cup {e(bg_code(c)) : c \in Colors}

\* C10: without allow_color no escape sequence is in the sink.
C10_NoEscapeWithoutColor ==
    ~allow_color => \A j \in 1..Len(w) : w[j].b \notin Escapes

\* the markers opened and not closed in the first j chunks of the sink
Open(j) ==
    Cardinality({i \in 1..j : w[i].b = SOH}) - Cardinality({i \in 1..j : w[i].b = STX})

\* C11: with bash_prompt, every escape sequence in the sink follows a 0x01
\* that is not yet closed by a 0x02, a 0x01 is written only when none is open
\* and a 0x02 only when one is open, and when evaluate has returned Ok no
\* marker is left open.
C11_EscapesInsideMarkers ==
    bash_prompt =>
        /\ \A j \in 1..Len(w) :
              /\ w[j].b \in Escapes => Open(j) = 1
              /\ w[j].b = SOH => Open(j - 1) = 0
              /\ w[j].b = STX => Open(j - 1) = 1
        /\ Finished => Open(Len(w)) = 0

C11_ResetsStyleAndDifference ==
    /\ bash_prompt
    /\ allow_color
    /\ Finished
    /\ \E j \in 1..Len(w) : w[j].role = "style"
    /\ \E j \in 1..Len(w) : w[j].role = "difference" /\ w[j].b = e("1")
    /\ w[1].b = SOH
    /\ w[Len(w)].b = STX

\* C12: evaluate returns Err(UnexpectedArgs) exactly when a Quote with a
\* non-empty sub-tree was interpreted, the error carries that Quote with its
\* sub-tree and no quote character is written for it; a Quote with an empty
\* sub-tree that returns has written exactly one quote character, directly to
\* the sink, and reports wrote = true.
C12_QuoteTakesNoArguments ==
    /\ \A n \in DOMAIN exps :
          (exps[n].kind = "Named" /\ exps[n].arg = "Quote" /\ exps[n].sub # "empty") =>
              /\ stack = <<>>
              /\ result.kind = "UnexpectedArgs"
              /\ result.exp = [name |-> "Quote", sub |-> exps[n].sub]
              /\ \A j \in Current : w[j].n # n
    /\ result.kind = "UnexpectedArgs" =>
          \E n \in DOMAIN exps :
              exps[n].kind = "Named" /\ exps[n].arg = "Quote" /\ exps[n].sub # "empty"
    /\ (returned.n \in DOMAIN exps /\ exps[returned.n] = Node("Named", "Quote", "empty")) =>
          /\ returned.wrote
          /\ returned.written_after = returned.written_before + 1
          /\ returned.queue_after = returned.queue_before
          /\ w[returned.written_after] =
                [b |-> "'", role |-> "quote", n |-> returned.n, stale |-> FALSE]

C12_QuoteWithArguments ==
    /\ result.kind = "UnexpectedArgs"
    /\ <<1>> \in DOMAIN exps
    /\ exps[<<1>>].kind = "Literal"
    /\ <<2>> \in DOMAIN exps
    /\ exps[<<2>>] = Node("Named", "Quote", "nonempty")
    /\ Bytes(w) = "a"

\* C13: a failed write ends evaluate at once with Err(WriteError): every call
\* is left, what was in the sink stays there, and nothing is written to that
\* sink afterwards.
C13_WriteErrorAborts ==
    [][/\ (result.kind = "Running" /\ result'.kind = "WriteError") =>
              /\ stack' = <<>>
              /\ Len(w') >= Len(w)
              /\ SubSeq(w', 1, Len(w)) = w
       /\ (result.kind = "WriteError" /\ result'.kind = "WriteError") => w' = w
       /\ result.kind = "WriteError" => stack = <<>>]_vars

C13_FailedAfterOneByte ==
    /\ result.kind = "WriteError"
    /\ stack = <<>>
    /\ Len(w) = 1
    /\ w[1].role = "left"
    /\ <<1, 1>> \in DOMAIN exps
    /\ exps[<<1, 1>>].kind = "Literal"

\* C14: parse applied to the Display of a generated tree returns Ok with
\* exactly that tree, whatever Named, Format, Group, Literal and Separator
\* expressions the tree is made of and however they are nested.
C14_DisplayParseRoundTrip ==
    parsed # NotParsed =>
        /\ text = <<Tree_fmt(tree)>> \/ (text = <<>> /\ tree = <<>>)
        /\ parsed = [class |-> "Ok", val |-> tree]

C14_NestedSameKindGroups ==
    /\ parsed = [class |-> "Ok", val |-> tree]
    /\ tree = <<Group("Square", <<Group("Square", <<Named("Quote", <<>>)>>)>>)>>
    /\ Flatten(text) = <<"[", "[", "\\", "'", "]", "]">>

\* C15: parse returns Ok only when expression_tree consumed the whole input,
\* and then with the tree expression_tree built; when expression_tree stops
\* before the end of the input, as in "b)", parse returns a ParseError that
\* points at the input that was not consumed.
C15_WholeInputConsumed ==
    parsed # NotParsed =>
        LET r == expression_tree(Flatten(text))
        IN  /\ parsed.class = "Ok" =>
                  /\ r.class = "Ok"
                  /\ r.rest = <<>>
                  /\ parsed.val = r.val
                  /\ parse(Tree_fmt(parsed.val)) = parsed
            /\ (r.class = "Ok" /\ r.rest # <<>>) =>
                  /\ parsed.class = "Err"
                  /\ parsed.err.error[1] = r.rest

C15_PrefixIsNotEnough ==
    /\ text = << <<"b">>, <<")">> >>
    /\ expression_tree(Flatten(text)) = IResult_Ok(<<")">>, <<Named("Branch", <<>>)>>)
    /\ parsed.class = "Err"
    /\ parsed.err.error = << <<")">>, ParseErrorKind("Other", "Eof") >>

\* the delimiters of the left brackets typed as pieces of text
Opened == {d \in Delimiters : \E k \in 1..Len(text) : text[k] = Group_open(d)}

\* C16 as claimed: when the input starts with the left bracket of a Group
\* and the right glyph of that Group occurs nowhere after it, whatever
\* follows the left bracket, parse returns a ParseError of kind
\* MissingDelimiter that carries the right glyph of an opened Group.
C16_UnclosedGroup ==
    \A d \in Delimiters :
        (/\ parsed # NotParsed
         /\ text # <<>>
         /\ text[1] = Group_open(d)
         /\ \A k \in 1..Len(Flatten(text)) : Flatten(text)[k] # right(d)) =>
            /\ parsed.class = "Err"
            /\ parsed.err.error[2].kind = "MissingDelimiter"
            /\ \E o \in Opened : parsed.err.error[2].c = right(o)

\* C16, amended: when the input is the left bracket of a Group followed by
\* complete expressions only (what follows the bracket parses as a Tree),
\* parse returns a ParseError of kind MissingDelimiter that carries the
\* right glyph of that Group and points at the left bracket.
C16_UnclosedGroupAtEnd ==
    \A d \in Delimiters :
        (/\ parsed # NotParsed
         /\ text # <<>>
         /\ text[1] = Group_open(d)
         /\ parse(Flatten(Tail(text))).class = "Ok") =>
            /\ parsed.class = "Err"
            /\ parsed.err.error = <<Flatten(text), ParseErrorKind("MissingDelimiter", right(d))>>

C16_ParensLeftOpen ==
    /\ text = << <<"\\", "(">>, <<"b">>, <<"'", "a", "]", "b", "'">> >>
    /\ parsed.class = "Err"
    /\ parsed.err.error[2] = ParseErrorKind("MissingDelimiter", ")")

\* the channels typed are three decimal numbers of 0..255
WellFormedChannels ==
    \E r \in {<<"0">>, <<"2", "5", "5">>}, g \in {<<"0">>, <<"2", "5", "5">>},
       b \in {<<"0">>, <<"2", "5", "5">>} : text[2] = Join(<<r, g, b>>)

\* C17: parse never panics, and for a format whose RGB token does not hold
\* exactly three decimal channels of 0..255 it returns a ParseError of kind
\* InvalidRGB.
C17_MalformedRGB ==
    parsed # NotParsed =>
        /\ parsed.class # "Panic"
        /\ ~WellFormedChannels =>
              /\ parsed.class = "Err"
              /\ parsed.err.error[2].kind = "InvalidRGB"

\* the glyphs of the delimiters
Brackets == {"<", ">", "[", "]", "{", "}", "(", ")"}

\* a Literal with a bracket character in the sub-tree of a Group, Named or
\* Format expression of the tree t (inside: t is such a sub-tree)
RECURSIVE BracketLiteralInside(_, _)
BracketLiteralInside(t, inside) ==
    \E k \in 1..Len(t) :
        \/ /\ inside
           /\ t[k].kind = "Literal"
           /\ \E j \in 1..Len(t[k].string) : t[k].string[j] \in Brackets
        \/ BracketLiteralInside(sub_of(t[k]), TRUE)

\* the tree t with "x" for every bracket character of its Literals
RECURSIVE Plain(_)
Plain(t) ==
    [k \in 1..Len(t) |->
        CASE t[k].kind = "Literal" ->
                Literal([j \in 1..Len(t[k].string) |->
                            IF t[k].string[j] \in Brackets THEN "x" ELSE t[k].string[j]])
          [] t[k].kind = "Separator" -> t[k]
          [] OTHER -> [t[k] EXCEPT !.sub = Plain(t[k].sub)]]

\* C18: when a generated tree holds, in the sub-tree of a Group, Named or
\* Format expression, a Literal with bracket characters, parse applied to
\* its Display returns the tree with the Literal intact, and the tree it
\* returns has the shape of the one it returns when the bracket characters
\* of the Literals are replaced by letters.
C18_LiteralBracketsAreText ==
    (parsed # NotParsed /\ BracketLiteralInside(tree, FALSE)) =>
        /\ parsed.class = "Ok"
        /\ parsed.val = tree
        /\ parse(Tree_fmt(Plain(tree))) = [class |-> "Ok", val |-> Plain(parsed.val)]

C18_BracketInsideSquareGroup ==
    /\ tree = <<Group("Square", <<Literal(<<"a", "]", "b">>)>>)>>
    /\ Flatten(text) = <<"[", "'", "a", "]", "b", "'", "]">>
    /\ parsed = [class |-> "Ok", val |-> tree]

\* C19: the tags Display writes and the tags the parser reads are the same
\* one-to-one table, for Name and for Style: the Display of every name and
\* of every style token is read back as that name and that token, with
\* nothing left over, and every tag of the parser's tables is the Display
\* of the value the table gives for it.
C19_TagTablesAgree ==
    /\ parsed.class = "Styles" =>
          \A k \in 1..Len(styles) : parsed.each[k] = IResult_Ok(<<>>, styles[k])
    /\ (parsed # NotParsed /\ tree # <<>>) => parsed = IResult_Ok(<<>>, tree[1])
    /\ \A k \in 1..Len(names) : Name_fmt(names[k][2]) = names[k][1]
    /\ \A k \in 1..Len(style_tags) : Style_fmt(style_tags[k][2]) = style_tags[k][1]
    /\ {names[k][2] : k \in 1..Len(names)} = Names
    /\ {style_tags[k][2] : k \in 1..Len(style_tags)}
          = {style \in StyleTokens : style.color \in Colors \cup {"None"}}

C19_SharedLettersReadBack ==
    /\ parsed.class = "Styles"
    /\ styles = <<Bg("Blue"), Fg(RGB(0, 42, 255)), Underline>>
    /\ text = << <<"B">>, <<"[", "0", ",", "4", "2", ",", "2", "5", "5", "]">>, <<"_">> >>
    /\ parsed.each[1] = IResult_Ok(<<>>, Bg("Blue"))
    /\ named_expression(text[1]) = IResult_Ok(<<>>, Named("Remote", <<>>))

\* the positions of styles after the last Reset
AfterReset ==
    {k \in 1..Len(styles) : \A j \in k..Len(styles) : styles[j] # Reset}

\* the color of the last token of styles of kind kind ("Fg" or "Bg") after
\* the last Reset, "None" without such a token
LastColor(kind) ==
    LET at == {k \in AfterReset : styles[k].style = kind}
    IN  IF at = {} THEN "None"
        ELSE styles[CHOOSE k \in at : \A j \in at : j <= k].color

\* C20: the CompleteStyle collected from a sequence of Style tokens holds
\* the color of the last Fg and of the last Bg token after the last Reset,
\* and the flags of the Bold, Italic and Underline tokens after the last
\* Reset; a sequence that ends in Reset collects to the default; adding the
\* last token once more changes nothing; and the fold of format_expression
\* over the Display of the tokens yields the same CompleteStyle.
C20_StyleFold ==
    /\ complete.fg = LastColor("Fg")
    /\ complete.bg = LastColor("Bg")
    /\ complete.bold = (\E k \in AfterReset : styles[k] = Bold)
    /\ complete.italics = (\E k \in AfterReset : styles[k] = Italic)
    /\ complete.underline = (\E k \in AfterReset : styles[k] = Underline)
    /\ (styles # <<>> /\ styles[Len(styles)] = Reset) => complete = CompleteStyle_default
    /\ styles # <<>> => add(complete, styles[Len(styles)]) = complete
    /\ parsed.class = "Styles" => parsed.folded = IResult_Ok(<<>>, complete)

C20_ResetClearsWhatCameBefore ==
    /\ styles = <<Italic, Reset, Bg("Red")>>
    /\ complete = [CompleteStyle_default EXCEPT !.bg = "Red"]
    /\ parsed.class = "Styles"
    /\ Flatten(text) = <<"i", "~", "R">>

\* the styles {bold}, {fg: Red} and {bold, fg: Red}
OnlyBold == [CompleteStyle_default EXCEPT !.bold = TRUE]
OnlyRed == [CompleteStyle_default EXCEPT !.fg = "Red"]
BoldRed == [CompleteStyle_default EXCEPT !.bold = TRUE, !.fg = "Red"]

\* C21: += of CompleteStyle is associative: when three values a, b and c
\* have been added up one after the other, the sum (a + b) + c is the same as
\* a + (b + c).
C21_AddAssignAssociative ==
    Len(styles) = 3 =>
        complete = add_assign(styles[1], add_assign(styles[2], styles[3]))

\* next drops an attribute that prev had set
Drops(prev, next) ==
    \/ prev.fg # "None" /\ next.fg = "None"
    \/ prev.bg # "None" /\ next.bg = "None"
    \/ prev.bold /\ ~next.bold
    \/ prev.italics /\ ~next.italics
    \/ prev.underline /\ ~next.underline

\* C22: Difference::between(prev, next) is None exactly when prev = next,
\* Reset exactly when they differ and next drops an attribute that prev had
\* set, and Add in every other case.
C22_DifferenceKinds ==
    parsed.class = "Difference" =>
        /\ parsed.between.kind = "None" <=> parsed.prev = parsed.next
        /\ parsed.between.kind = "Reset" <=>
              (parsed.prev # parsed.next /\ Drops(parsed.prev, parsed.next))
        /\ parsed.between.kind = "Add" <=>
              (parsed.prev # parsed.next /\ ~Drops(parsed.prev, parsed.next))

C22_BoldDropped ==
    /\ parsed.class = "Difference"
    /\ parsed.prev = BoldRed
    /\ parsed.next = OnlyRed
    /\ parsed.between = [kind |-> "Reset"]

\* the chunks between the markers of bash_prompt, if there are markers
Unmarked(chunks) ==
    IF bash_prompt THEN SubSeq(chunks, 2, Len(chunks) - 1) ELSE chunks

\* the escapes of the attributes whose value differs between prev and next,
\* in the order write_to writes them
Changed(prev, next) ==
    (IF next.fg # prev.fg THEN <<e(fg_code(next.fg))>> ELSE <<>>)
    \o (IF next.bg # prev.bg THEN <<e(bg_code(next.bg))>> ELSE <<>>)
    \o (IF next.bold # prev.bold THEN <<e("1")>> ELSE <<>>)
    \o (IF next.italics # prev.italics THEN <<e("3")>> ELSE <<>>)
    \o (IF next.underline # prev.underline THEN <<e("4")>> ELSE <<>>)

\* C23: write_difference writes only what changed: from {bold} to
\* {bold, fg: Red} it writes the foreground-red escape alone, from
\* {bold, fg: Red} to {fg: Red} the full reset followed by the foreground-red
\* escape; an Add carries exactly the attributes whose value differs between
\* prev and next, += of it onto prev gives next, and the escapes written are
\* those of these attributes.
C23_MinimalDifference ==
    parsed.class = "Difference" =>
        /\ (parsed.prev = OnlyBold /\ parsed.next = BoldRed) =>
              Unmarked(parsed.written) = <<e("31")>>
        /\ (parsed.prev = BoldRed /\ parsed.next = OnlyRed) =>
              Unmarked(parsed.written) = <<e("0"), e("31")>>
        /\ parsed.between.kind = "Add" =>
              /\ add_assign(parsed.prev, parsed.between.style) = parsed.next
              /\ \A f \in {"fg", "bg", "bold", "italics", "underline"} :
                    parsed.between.style[f] =
                        IF parsed.next[f] # parsed.prev[f]
                        THEN parsed.next[f]
                        ELSE CompleteStyle_default[f]
              /\ Unmarked(parsed.written) = Changed(parsed.prev, parsed.next)
        /\ bash_prompt /\ parsed.written # <<>> =>
              /\ parsed.written[1] = SOH
              /\ parsed.written[Len(parsed.written)] = STX

C23_OnlyRedAdded ==
    /\ parsed.class = "Difference"
    /\ ~bash_prompt
    /\ parsed.prev = OnlyBold
    /\ parsed.next = BoldRed
    /\ parsed.written = <<e("31")>>

\* the tokens of the typed Format are separated by semicolons
Semicolons ==
    /\ Len(styles) >= 2
    /\ \A k \in 1..Len(styles) - 1 : text[2 * k + 1] = <<";">>

\* C24: a Format whose style tokens are separated by semicolons, such as
\* #w;K('x') and #r;*('x'), is accepted by parse and yields a Format whose
\* style is the combination of all the tokens listed.
C24_SemicolonsCombine ==
    (parsed # NotParsed /\ Semicolons) =>
        parsed = [class |-> "Ok",
                  val |-> <<Format(from_iter(styles), <<Literal(<<"x">>)>>)>>]

\* the same for tokens written one after the other, without semicolons
JuxtaposedCombine ==
    (parsed # NotParsed /\ styles # <<>> /\ ~Semicolons
     /\ \A k \in 1..Len(styles) - 1 : text[2 * k + 1] = <<>>) =>
        parsed = [class |-> "Ok",
                  val |-> <<Format(from_iter(styles), <<Literal(<<"x">>)>>)>>]

\* the separators of the innermost tree that are at the back of the queue
PendingSeparators ==
    Cardinality({k \in 1..Len(command_queue) :
        \A j \in k..Len(command_queue) :
            /\ command_queue[j].role = "separator"
            /\ ~command_queue[j].stale
            /\ Parent(command_queue[j].n) = Top.n})

\* the call of interpret that returned last was made by the loop of the
\* innermost tree, for the element before the one the loop is at
JustReturned ==
    /\ InTree
    /\ returned.n # <<>>
    /\ Top.n = Parent(returned.n)
    /\ Top.i = Index(returned.n) + 1

\* C25: in interpret_tree, when an element that is no Separator has returned
\* wrote = true, separator_count is 0, and between two elements
\* separator_count is the number of separators of this tree at the back of
\* the queue, which is what a rollback removes.
C25_SeparatorCountReset ==
    /\ (JustReturned /\ returned.wrote) => Top.separator_count = 0
    /\ InTree => Top.separator_count = PendingSeparators

\* C28: drain_queue is never called with a count larger than the length of
\* the queue: the subtraction len - i never underflows, so evaluate never
\* panics and no build wraps around and leaves the queue as it is.
C28_DrainNeverUnderflows ==
    /\ result.kind # "Panic"
    /\ overflow_checks = "undetermined"

\* Style tokens as they are written in a format string, and the style
\* format_expression makes of them.
Written ==
    UNION {[1..n -> {Reset, Bold, Fg("Red")}] : n \in 1..2}

WrittenStyle ==
    [ts \in Written |->
        tokens(Flatten([k \in 1..Len(ts) |-> Style_fmt(ts[k])])).val]

\* C26: the context interpret_format uses for its sub-tree is the ambient
\* context with the style tokens of the Format applied to it from left to
\* right, as they are written in the format string: for #~r(...) inside a
\* bold Format it is {fg: Red}, without bold.
C26_TokensAppliedToContext ==
    \A j \in 1..Len(stack) :
        stack[j].fn = "interpret_format" =>
            \A ts \in Written :
                WrittenStyle[ts] = exps[stack[j].n].arg =>
                    /\ stack[j].context = extend(stack[j].prev, ts)
                    /\ stack[j + 1].context = extend(stack[j].prev, ts)

\* a token of the sink that shows on the terminal: at least one byte, and
\* not part of an escape sequence or a marker
Visible(tok) ==
    /\ tok.role \in ContentRoles \cup {"left", "right", "separator"}
    /\ tok.b # ""

\* C27: interpret returns wrote = true if and only if a visible byte was
\* written to the sink while the expression was evaluated, and a tree that
\* has wrote = true has had a visible byte written since it was entered; no
\* expression reports wrote = true having written no visible byte.
C27_WroteIffVisible ==
    /\ returned.n # <<>> =>
          (returned.wrote <=>
              \E j \in returned.written_before + 1..returned.written_after :
                  Visible(w[j]))
    /\ (InTree /\ Below(1).fn \in {"Group", "interpret_format"} /\ Top.wrote) =>
          \E j \in Below(1).w0 + 1..Len(w) : Visible(w[j])

\* what the chunk b makes of the style of a terminal (SGR parameters 0, 1,
\* 3, 4, 30-37 and 40-47; anything else leaves the style alone)
Sgr(style, b) ==
    IF b = e("0") THEN CompleteStyle_default
    ELSE IF b = e("1") THEN [style EXCEPT !.bold = TRUE]
    ELSE IF b = e("3") THEN [style EXCEPT !.italics = TRUE]
    ELSE IF b = e("4") THEN [style EXCEPT !.underline = TRUE]
    ELSE IF \E c \in Colors : b = e(fg_code(c))
    THEN [style EXCEPT !.fg = CHOOSE c \in Colors : b = e(fg_code(c))]
    ELSE IF \E c \in Colors : b = e(bg_code(c))
    THEN [style EXCEPT !.bg = CHOOSE c \in Colors : b = e(bg_code(c))]
    ELSE style

\* the style of a terminal that was in its default style before the first j
\* chunks of the sink were written to it
RECURSIVE Terminal(_)
Terminal(j) ==
    IF j = 0 THEN CompleteStyle_default ELSE Sgr(Terminal(j - 1), w[j].b)

\* the style context the expression at n is interpreted with: the styles of
\* its Format ancestors, added up from the root
RECURSIVE Ambient(_)
Ambient(n) ==
    IF Len(n) <= 1 THEN CompleteStyle_default
    ELSE IF exps[Parent(n)].kind = "Format"
    THEN add_assign(Ambient(Parent(n)), exps[Parent(n)].arg)
    ELSE Ambient(Parent(n))

\* C29: when the text of a Literal, the quote character or the prefix or
\* value of a Named is written to the sink, the style the escapes written so
\* far leave the terminal in is the style context of that expression, and
\* when a Format that wrote has returned it is the context the Format was
\* entered with.
C29_TerminalStyle ==
    /\ \A j \in Current :
          w[j].role \in ContentRoles => Terminal(j - 1) = Ambient(w[j].n)
    /\ (/\ returned.n \in DOMAIN exps
        /\ exps[returned.n].kind = "Format"
        /\ returned.wrote) =>
          Terminal(returned.written_after) = Ambient(returned.n)

\* C30: an expression that returns wrote = false leaves the sink and the
\* queue as they were when its evaluation started, and so does a tree as long
\* as none of its elements wrote: what was pushed for it has been popped and
\* nothing an ancestor or an earlier sibling queued has been removed or
\* written.
C30_NoWriteNoTrace ==
    /\ (returned.n # <<>> /\ ~returned.wrote) =>
          /\ returned.written_after = returned.written_before
          /\ returned.queue_after = returned.queue_before
    /\ (InTree /\ ~Top.wrote /\ Below(1).fn \in {"Group", "interpret_format"}) =>
          /\ Len(w) = Below(1).w0
          /\ Len(command_queue) = Below(1).len + 1
          /\ SubSeq(command_queue, 1, Below(1).len) = Below(1).q0
    /\ (InTree /\ ~Top.wrote /\ Below(1).fn = "optional_prefix") =>
          /\ Len(w) = Below(1).flushed
          /\ command_queue = <<>>

C30_FormatRolledBack ==
    /\ InTree
    /\ returned.n = <<1>>
    /\ ~returned.wrote
    /\ exps[<<1>>].kind = "Format"
    /\ <<1, 1>> \in DOMAIN exps
    /\ exps[<<1, 1>>].kind = "Group"
    /\ <<1, 1, 1>> \in DOMAIN exps
    /\ returned.queue_before # <<>>
    /\ command_queue = returned.queue_before
    /\ w = <<>>

====
